---- MODULE Spec2Model ----
(***************************************************************************)
(* Model of the activity-consolidation pipeline of happy_track:            *)
(*   - JiraService.getUserActivities   (src/src/services/JiraService.ts)   *)
(*   - ReportService.generateReport    (src/unnamed/part_009)              *)
(*   - ReportService.exportToCSV       (src/unnamed/part_009)              *)
(*   - TestRailService.getUserActivities (src/unnamed/part_009)            *)
(*   - EmailService.sendReportEmail    (src/unnamed/part_008)              *)
(*   - AppErrorHandler.handleApiError  (src/src/utils/errorHandler.ts)     *)
(* Instants are counted in ticks; a calendar day (UTC) has DayLen ticks.   *)
(* An ISO-8601 string is the pair <<day, tick of day>>.                    *)
(* SpecJira runs one call of getUserActivities against a Jira server whose *)
(* issues and comments are fixed at the start; Spec runs generateReport    *)
(* against adapters whose answers (activities or an error) are fixed, as   *)
(* mocked adapters are.  Timestamps the adapters deliver are valid dates.  *)
(***************************************************************************)
EXTENDS Integers, Sequences, FiniteSets, TLC

\* ------------------------------------------------------------------ bounds
\* ticks per calendar day
DayLen == 2
\* last instant of the fixtures
MaxTick == 2
\* issues on the Jira server when comments are present
MaxIssues == 2
\* comments per issue on the Jira server
MaxComments == 1
\* page size the model passes to searchIssues (the code passes 1000)
MaxResults == 2
\* users handed to generateReport
MaxUsers == 2
\* activities one adapter call returns
MaxActs == 2
\* calls of generateReport in a row
MaxCalls == 2

Ticks == 0..MaxTick
Accounts == {"a", "b"}

\* ------------------------------------------------------------ date helpers
\* Date.prototype.toISOString: instant -> ISO string
ToISOString(t) == <<t \div DayLen, t % DayLen>>
\* new Date(isoString).getTime(): ISO string -> instant
DateParse(iso) == iso[1] * DayLen + iso[2]
\* date.toISOString().split('T')[0]: the UTC calendar day of an instant
DateStr(t) == ToISOString(t)[1]

\* faulty variant of the sort: x goes in front of the elements it ties with
RECURSIVE InsertBeforeTies(_, _)
InsertBeforeTies(x, s) ==
  IF s = <<>> THEN <<x>>
  ELSE IF x[1] - Head(s)[1] <= 0 THEN <<x>> \o s
  ELSE <<Head(s)>> \o InsertBeforeTies(x, Tail(s))

\* ------------------------------------------------------------------ sorting
\* Array.prototype.sort with the comparator
\*   (a, b) => new Date(a.timestamp).getTime() - new Date(b.timestamp).getTime()
\* (a stable sort): x goes behind every element that does not compare greater.
RECURSIVE InsertByTime(_, _)
InsertByTime(x, s) ==
  IF s = <<>> THEN <<x>>
  ELSE IF x[1] - Head(s)[1] < 0 THEN <<x>> \o s
  ELSE <<Head(s)>> \o InsertByTime(x, Tail(s))

RECURSIVE SortPairs(_)
SortPairs(s) ==
  IF s = <<>> THEN <<>>
  ELSE InsertByTime(s[Len(s)], SortPairs(SubSeq(s, 1, Len(s) - 1)))

\* s sorted by times, times[i] being the instant the comparator computes for s[i]
SortByTime(s, times) ==
  LET sorted == SortPairs([i \in DOMAIN s |-> <<times[i], s[i]>>])
  IN [i \in DOMAIN s |-> sorted[i][2]]

SeqsUpTo(S, n) == UNION {[1..k -> S] : k \in 0..n}
Range(s) == {s[i] : i \in DOMAIN s}
Min(a, b) == IF a < b THEN a ELSE b

VARIABLES
  \* inputs of JiraService.getUserActivities
  accountIds, startDate, endDate,
  \* the Jira server: issuesDb[k] is the issue with key k
  issuesDb,
  \* JiraService.getUserActivities: position, locals, outcome
  jpc, activities, updatedIssues, idx, jiraResult,
  \* history: every activity pushed, in push order; keys whose comment fetch failed
  pushed, failedKeys,
  \* the AppConfig handed to the constructor of ReportService
  config,
  \* ReportService: the configured adapters and the fixed data they answer with
  testRailService, jiraService, trMock, jiraMock,
  \* inputs of generateReport
  users,
  \* generateReport: position, loop index, locals, returned value
  pc, i, userReport, reports, consolidated, result,
  \* history: number of the current call, value the first call returned
  call, firstResult,
  \* history: the adapter calls of the current generateReport, in the order they
  \* were awaited, each with the index of its user, the ids passed and the outcome
  callLog

jiraVars == <<accountIds, startDate, endDate, issuesDb, jpc, activities,
              updatedIssues, idx, jiraResult, pushed, failedKeys>>
reportVars == <<config, testRailService, jiraService, trMock, jiraMock, users, pc, i, userReport,
                reports, consolidated, result, call, firstResult, callLog>>

VARIABLES
  \* AppErrorHandler.handleApiError: the error caught, the service named, the
  \* AppError returned, position
  apiError, serviceName, appError, epc


VARIABLES
  \* ReportService.exportToCSV: the consolidated list handed in, the rows of the file
  \* at filePath, position, the error thrown
  exportInput, csvFile, xpc, csvError


VARIABLES
  \* EmailService: the configured subject and body template
  subjectTemplate, bodyTemplate,
  \* inputs of sendReportEmail
  mailStart, mailEnd, additionalInfo,
  \* sendReportEmail: position, the mail options handed to transporter.sendMail (one
  \* per invocation), the error the transport rejected with, the error thrown
  mpc, sentMails, transportError, mailError


VARIABLES
  \* concurrent invocations of generateReport, each with its position, loop index
  \* and locals, and the value it returned: one component per invocation
  cpc, ci, cUserReport, cReports, cConsolidated, cResult


VARIABLES
  \* inputs of TestRailService.getUserActivities (instants in milliseconds)
  trUserIds, trStart, trEnd,
  \* the TestRail server: its status catalog and the runs of project 1 with their results
  trStatuses, trRunsDb,
  \* getUserActivities: position, loop indexes, locals, returned value, error thrown
  trpc, trProjectIdx, trRunIdx, trActivities, trResult, trError,
  \* history: what the failed HTTP call threw
  trCause


VARIABLES
  \* the persistent store of the main process: the value under 'app-config', if any
  store,
  \* App: position of the start-up, the config state of App
  apc, appConfig,
  \* ConfigProvider: the config state, the config the closures of the current render
  \* hold, whether a state change still waits for its render, loading, error
  ctxConfig, closureConfig, renderPending, ctxLoading, ctxError,
  \* the timeout of the auto-save effect, with the config its callback holds
  timer,
  \* the store-set requests sent to the main process and not yet handled, in order
  ipc,
  \* Configuration: the save message
  saveMessage,
  \* history: the handler calls made, whether a store write failed, what the last
  \* handler call patched and what its saveConfig sent
  updates, writeFailed, lastSave

errVars == <<apiError, serviceName, appError, epc>>
csvVars == <<exportInput, csvFile, xpc, csvError>>
mailVars == <<subjectTemplate, bodyTemplate, mailStart, mailEnd, additionalInfo, mpc,
              sentMails, transportError, mailError>>
\* the variables of the operations other than the two above
concVars == <<cpc, ci, cUserReport, cReports, cConsolidated, cResult>>
trVars == <<trUserIds, trStart, trEnd, trStatuses, trRunsDb, trpc, trProjectIdx, trRunIdx,
            trActivities, trResult, trError, trCause>>
cfgVars == <<store, apc, appConfig, ctxConfig, closureConfig, renderPending, ctxLoading,
             ctxError, timer, ipc, saveMessage, updates, writeFailed, lastSave>>
restVars == <<errVars, csvVars, mailVars, concVars, trVars, cfgVars>>
vars == <<jiraVars, reportVars, restVars>>

\* handleApiError is not running
ErrIdle ==
  /\ apiError = <<>>
  /\ serviceName = ""
  /\ appError = <<>>
  /\ epc = "off"

\* exportToCSV is not running
CsvIdle ==
  /\ exportInput = <<>>
  /\ csvFile = <<>>
  /\ xpc = "off"
  /\ csvError = ""

\* no error object
NoError == [name |-> "", code |-> "", message |-> ""]

\* sendReportEmail is not running
MailIdle ==
  /\ subjectTemplate = <<>>
  /\ bodyTemplate = <<>>
  /\ mailStart = 0
  /\ mailEnd = 0
  /\ additionalInfo = <<>>
  /\ mpc = "off"
  /\ sentMails = <<>>
  /\ transportError = NoError
  /\ mailError = NoError

\* no concurrent invocation of generateReport exists
ConcIdle ==
  /\ cpc = <<>>
  /\ ci = <<>>
  /\ cUserReport = <<>>
  /\ cReports = <<>>
  /\ cConsolidated = <<>>
  /\ cResult = <<>>

\* TestRailService.getUserActivities is not running
TrIdle ==
  /\ trUserIds = <<>>
  /\ trStart = 0
  /\ trEnd = 0
  /\ trStatuses = <<>>
  /\ trRunsDb = <<>>
  /\ trpc = "off"
  /\ trProjectIdx = 0
  /\ trRunIdx = 0
  /\ trActivities = <<>>
  /\ trResult = <<>>
  /\ trError = NoError
  /\ trCause = <<>>

CfgIdle ==
  /\ store = <<>>
  /\ apc = "off"
  /\ appConfig = <<>>
  /\ ctxConfig = <<>>
  /\ closureConfig = <<>>
  /\ renderPending = FALSE
  /\ ctxLoading = FALSE
  /\ ctxError = ""
  /\ timer = <<>>
  /\ ipc = <<>>
  /\ saveMessage = ""
  /\ updates = 0
  /\ writeFailed = FALSE
  /\ lastSave = <<>>

RestIdle == ErrIdle /\ CsvIdle /\ MailIdle /\ ConcIdle /\ TrIdle /\ CfgIdle

\* ------------------------------------------------------------- Jira server
CommentSet(t) == [author : Accounts, created : {ToISOString(u) : u \in {v \in Ticks : v >= t}}]
IssueSet(nc) ==
  UNION {[creator : Accounts, created : {ToISOString(t)}, comments : SeqsUpTo(CommentSet(t), nc)]
         : t \in Ticks}

\* the last moment an issue changed: its creation or its latest comment
UpdatedOf(issue) ==
  LET ts == {DateParse(issue.created)} \cup {DateParse(c.created) : c \in Range(issue.comments)}
  IN CHOOSE m \in ts : \A t \in ts : t <= m

Keys == DOMAIN issuesDb
AllKeys == [k \in Keys |-> k]

\* creator in (ids) AND created >= "startDateStr" AND created <= "endDateStr 23:59"
CreatedJql(ids, startDateStr, endDateStr) ==
  LET Match(k) == /\ issuesDb[k].creator \in Range(ids)
                  /\ issuesDb[k].created[1] >= startDateStr
                  /\ issuesDb[k].created[1] <= endDateStr
  IN SelectSeq(AllKeys, Match)

\* updated >= "startDateStr" AND updated <= "endDateStr 23:59"
UpdatedJql(startDateStr, endDateStr) ==
  LET Match(k) == /\ DateStr(UpdatedOf(issuesDb[k])) >= startDateStr
                  /\ DateStr(UpdatedOf(issuesDb[k])) <= endDateStr
  IN SelectSeq(AllKeys, Match)

\* GET /search: one page of the matches, maxResults long, from offset startAt
SearchIssues(matches, maxResults, startAt) ==
  SubSeq(matches, startAt + 1, Min(Len(matches), startAt + maxResults))

\* ----------------------------------------------- JiraService.getUserActivities
CreatedActivity(k) ==
  [id |-> <<k, "created">>, userId |-> issuesDb[k].creator, issueKey |-> k,
   issueTitle |-> <<"summary", k>>, activity |-> "created",
   timestamp |-> DateParse(issuesDb[k].created)]

CommentActivity(k, cid) ==
  [id |-> <<k, "comment", cid>>, userId |-> issuesDb[k].comments[cid].author, issueKey |-> k,
   issueTitle |-> <<"summary", k>>, activity |-> "commented",
   timestamp |-> DateParse(issuesDb[k].comments[cid].created)]

\* faulty variant of the filter: the author is not looked at
KeepCommentOfAnyAuthor(c) ==
  /\ DateParse(c.created) >= startDate
  /\ DateParse(c.created) <= endDate

\* the filter of the comment loop
KeepComment(c) ==
  /\ DateParse(c.created) >= startDate
  /\ DateParse(c.created) <= endDate
  /\ c.author \in Range(accountIds)

KeptComments(k) ==
  LET cs == issuesDb[k].comments
      Keep(cid) == KeepComment(cs[cid])
      kept == SelectSeq([cid \in DOMAIN cs |-> cid], Keep)
  IN [j \in DOMAIN kept |-> CommentActivity(k, kept[j])]

ActivityTime(a) == a.timestamp
ActivityIssueKey(a) == a.issueKey

\* activities.sort((a, b) => new Date(a.timestamp).getTime() - new Date(b.timestamp).getTime())
\* faulty variant of the sort: the comparator reads issueKey
SortActivitiesByIssueKey(acts) == SortByTime(acts, [j \in DOMAIN acts |-> ActivityIssueKey(acts[j])])
SortActivities(acts) == SortByTime(acts, [j \in DOMAIN acts |-> ActivityTime(acts[j])])

\* generateReport is not running
ReportIdle ==
  /\ config = <<>>
  /\ callLog = <<>>
  /\ testRailService = FALSE
  /\ jiraService = FALSE
  /\ trMock = <<>>
  /\ jiraMock = <<>>
  /\ users = <<>>
  /\ pc = "off"
  /\ i = 0
  /\ userReport = <<>>
  /\ reports = <<>>
  /\ consolidated = <<>>
  /\ result = <<>>
  /\ call = 0
  /\ firstResult = <<>>

JiraInit ==
  /\ RestIdle
  /\ accountIds \in {<<"a">>, <<"a", "b">>}
  /\ startDate \in Ticks
  /\ endDate \in {t \in Ticks : t >= startDate}
  /\ issuesDb \in SeqsUpTo(IssueSet(MaxComments), MaxIssues)
                  \cup [1..(MaxResults + 1) -> IssueSet(0)]
  /\ jpc = "created"
  /\ activities = <<>>
  /\ updatedIssues = <<>>
  /\ idx = 0
  /\ jiraResult = <<>>
  /\ pushed = <<>>
  /\ failedKeys = {}
  /\ ReportIdle

\* searchIssues(createdJql, ..., 1000) succeeds; one 'created' activity per returned issue
CreatedPhase ==
  /\ jpc = "created"
  /\ LET createdIssues == SearchIssues(CreatedJql(accountIds, DateStr(startDate), DateStr(endDate)),
                                       MaxResults, 0)
         acts == [j \in DOMAIN createdIssues |-> CreatedActivity(createdIssues[j])]
     IN /\ activities' = activities \o acts
        /\ pushed' = pushed \o acts
  /\ jpc' = "updated"
  /\ UNCHANGED <<accountIds, startDate, endDate, issuesDb, updatedIssues, idx, jiraResult, failedKeys>>
  /\ UNCHANGED <<reportVars, restVars>>

\* searchIssues(updatedJql, ..., 1000) succeeds
UpdatedPhase ==
  /\ jpc = "updated"
  /\ updatedIssues' = SearchIssues(UpdatedJql(DateStr(startDate), DateStr(endDate)), MaxResults, 0)
  /\ idx' = 1
  /\ jpc' = "comments"
  /\ UNCHANGED <<accountIds, startDate, endDate, issuesDb, activities, jiraResult, pushed, failedKeys>>
  /\ UNCHANGED <<reportVars, restVars>>

\* the outer catch returns the activities collected before the search that threw
SearchFailsReturnsCollected ==
  /\ jpc \in {"created", "updated"}
  /\ jiraResult' = SortActivities(activities)
  /\ jpc' = "done"
  /\ UNCHANGED <<accountIds, startDate, endDate, issuesDb, activities, updatedIssues, idx,
                 pushed, failedKeys>>
  /\ UNCHANGED <<reportVars, restVars>>

\* either searchIssues call throws: the outer catch rethrows
SearchFails ==
  /\ jpc \in {"created", "updated"}
  /\ jpc' = "failed"
  /\ UNCHANGED <<accountIds, startDate, endDate, issuesDb, activities, updatedIssues, idx,
                 jiraResult, pushed, failedKeys>>
  /\ UNCHANGED <<reportVars, restVars>>

\* one iteration of the comment loop, getIssueComments succeeds
CommentsFetched ==
  /\ jpc = "comments"
  /\ idx <= Len(updatedIssues)
  /\ activities' = activities \o KeptComments(updatedIssues[idx])
  /\ pushed' = pushed \o KeptComments(updatedIssues[idx])
  /\ idx' = idx + 1
  /\ UNCHANGED <<accountIds, startDate, endDate, issuesDb, jpc, updatedIssues, jiraResult, failedKeys>>
  /\ UNCHANGED <<reportVars, restVars>>

\* faulty variant of the catch: the failure ends the loop over the updated issues
CommentsFailEndsLoop ==
  /\ jpc = "comments"
  /\ idx <= Len(updatedIssues)
  /\ failedKeys' = failedKeys \cup {updatedIssues[idx]}
  /\ idx' = Len(updatedIssues) + 1
  /\ UNCHANGED <<accountIds, startDate, endDate, issuesDb, jpc, activities, updatedIssues,
                 jiraResult, pushed>>
  /\ UNCHANGED <<reportVars, restVars>>

\* one iteration of the comment loop, getIssueComments throws: logged, loop continues
CommentsFail ==
  /\ jpc = "comments"
  /\ idx <= Len(updatedIssues)
  /\ failedKeys' = failedKeys \cup {updatedIssues[idx]}
  /\ idx' = idx + 1
  /\ UNCHANGED <<accountIds, startDate, endDate, issuesDb, jpc, activities, updatedIssues,
                 jiraResult, pushed>>
  /\ UNCHANGED <<reportVars, restVars>>

\* activities.sort(...); return activities
SortAndReturn ==
  /\ jpc = "comments"
  /\ idx > Len(updatedIssues)
  /\ activities' = SortActivities(activities)
  /\ jiraResult' = activities'
  /\ jpc' = "done"
  /\ UNCHANGED <<accountIds, startDate, endDate, issuesDb, updatedIssues, idx, pushed, failedKeys>>
  /\ UNCHANGED <<reportVars, restVars>>

JiraNext ==
  \/ CreatedPhase
  \/ UpdatedPhase
  \/ SearchFails
  \/ CommentsFetched
  \/ CommentsFail
  \/ SortAndReturn

SpecJira == JiraInit /\ [][JiraNext]_vars

\* ------------------------------------------------ ReportService.generateReport
\* getUserActivities is not running
JiraIdle ==
  /\ accountIds = <<>>
  /\ startDate = 0
  /\ endDate = 0
  /\ issuesDb = <<>>
  /\ jpc = "off"
  /\ activities = <<>>
  /\ updatedIssues = <<>>
  /\ idx = 0
  /\ jiraResult = <<>>
  /\ pushed = <<>>
  /\ failedKeys = {}

\* the external identifiers the registry can give user n
TestRailIds == <<"t1", "t2", "t3">>
JiraIds == <<"j1", "j2", "j3">>
UserSet(n) == [id : {n}, testrailId : {"", TestRailIds[n]}, jiraAccountId : {"", JiraIds[n]}]
UserLists == UNION {{us \in [1..k -> UNION {UserSet(n) : n \in 1..k}] : \A n \in 1..k : us[n].id = n}
                    : k \in 0..MaxUsers}

IsSorted(ts) == \A m \in 1..(Len(ts) - 1) : ts[m] <= ts[m + 1]
Failure == [ok |-> FALSE, times |-> <<>>]
\* what TestRailService.getActivityReport answers: an error, or activities in fetch order
TrResponses == {Failure} \cup [ok : {TRUE}, times : SeqsUpTo(Ticks, MaxActs)]
\* what JiraService.getActivityReport answers: an error, or activities sorted by timestamp
JiraResponses == {Failure} \cup [ok : {TRUE}, times : {ts \in SeqsUpTo(Ticks, MaxActs) : IsSorted(ts)}]

\* the activities of a successful answer for the external identifier ext
MockActivities(ext, resp) ==
  [j \in DOMAIN resp.times |-> [id |-> <<ext, j>>, timestamp |-> resp.times[j]]]

\* a service's part of AppConfig: complete, or with one of its three fields empty
TestRailConfigs ==
  {[url |-> "https://tr", username |-> "qa", apiKey |-> "key"],
   [url |-> "", username |-> "qa", apiKey |-> "key"],
   [url |-> "https://tr", username |-> "", apiKey |-> "key"],
   [url |-> "https://tr", username |-> "qa", apiKey |-> ""]}
JiraConfigs ==
  {[url |-> "https://jira", username |-> "qa", apiToken |-> "token"],
   [url |-> "", username |-> "qa", apiToken |-> "token"],
   [url |-> "https://jira", username |-> "", apiToken |-> "token"],
   [url |-> "https://jira", username |-> "qa", apiToken |-> ""]}
AppConfigs == [testrail : TestRailConfigs, jira : JiraConfigs]

\* faulty variant of the constructor: the url alone decides
TestRailConfiguredByUrl(cfg) == cfg.testrail.url # ""
\* constructor of ReportService: a service exists when its three fields are truthy
TestRailConfigured(cfg) ==
  cfg.testrail.url # "" /\ cfg.testrail.username # "" /\ cfg.testrail.apiKey # ""
JiraConfigured(cfg) ==
  cfg.jira.url # "" /\ cfg.jira.username # "" /\ cfg.jira.apiToken # ""

\* one awaited adapter call: the user's index, the adapter, the ids passed, the outcome
LogEntry(n, adapter, ids, ok) == [user |-> n, adapter |-> adapter, ids |-> ids, ok |-> ok]

ReportInit ==
  /\ JiraIdle
  /\ RestIdle
  /\ users \in UserLists
  /\ config \in AppConfigs
  /\ testRailService = TestRailConfigured(config)
  /\ jiraService = JiraConfigured(config)
  /\ callLog = <<>>
  /\ trMock \in [{u.testrailId : u \in {v \in Range(users) : testRailService /\ v.testrailId # ""}}
                 -> TrResponses]
  /\ jiraMock \in [{u.jiraAccountId : u \in {v \in Range(users) : jiraService /\ v.jiraAccountId # ""}}
                   -> JiraResponses]
  /\ pc = "idle"
  /\ i = 0
  /\ userReport = <<>>
  /\ reports = <<>>
  /\ consolidated = <<>>
  /\ result = <<>>
  /\ call = 0
  /\ firstResult = <<>>

\* const userReport = { user, testrailActivities: [], jiraActivities: [], summary: {...} }
NewUserReport(user) ==
  [user |-> user, testrailActivities |-> <<>>, jiraActivities |-> <<>>, totalActivities |-> 0]

TestRailSource == "TestRail"
\* faulty variant of the Jira tag
JiraSourceLowerCase == "jira"
JiraSource == "Jira"

\* faulty variant of the projection: every entry is given the first user
ConsolidateUnderFirstUser(user, source, activity) ==
  [user |-> users[1], date |-> DateStr(activity.timestamp), source |-> source,
   description |-> activity.id, timestamp |-> ToISOString(activity.timestamp)]

\* the object pushed to consolidated for one adapter activity; description stands
\* for the title, type and details taken from the activity, date is the calendar
\* day format() prints (local zone taken as UTC)
Consolidate(user, source, activity) ==
  [user |-> user, date |-> DateStr(activity.timestamp), source |-> source,
   description |-> activity.id, timestamp |-> ToISOString(activity.timestamp)]

\* faulty variant of the projection loop: the last activity is not pushed
ConsolidateAllButLast(user, source, acts) ==
  [j \in 1..(Len(acts) - 1) |-> Consolidate(user, source, acts[j])]
\* activities.forEach(activity => consolidated.push({...}))
ConsolidateAll(user, source, acts) ==
  [j \in DOMAIN acts |-> Consolidate(user, source, acts[j])]

ConsolidatedTime(c) == DateParse(c.timestamp)
ConsolidatedDay(c) == c.date

\* consolidated.sort((a, b) => new Date(a.timestamp).getTime() - new Date(b.timestamp).getTime())
\* faulty variant of the sort: the comparator reads the date field
SortConsolidatedByDate(cons) == SortByTime(cons, [j \in DOMAIN cons |-> ConsolidatedDay(cons[j])])
SortConsolidated(cons) == SortByTime(cons, [j \in DOMAIN cons |-> ConsolidatedTime(cons[j])])

\* faulty variant of the entry: consolidated outlives the call
GenerateReportStartKeepsList ==
  /\ pc \in {"idle", "done"}
  /\ call < MaxCalls
  /\ call' = call + 1
  /\ reports' = <<>>
  /\ i' = 1
  /\ pc' = "testrail"
  /\ UNCHANGED <<config, testRailService, jiraService, trMock, jiraMock, users, userReport, result,
                 firstResult, consolidated>>
  /\ callLog' = <<>>
  /\ UNCHANGED <<jiraVars, restVars>>

\* entry of generateReport: const reports = []; const consolidated = [];
GenerateReportStart ==
  /\ pc \in {"idle", "done"}
  /\ call < MaxCalls
  /\ call' = call + 1
  /\ reports' = <<>>
  /\ consolidated' = <<>>
  /\ i' = 1
  /\ pc' = "testrail"
  /\ UNCHANGED <<config, testRailService, jiraService, trMock, jiraMock, users, userReport, result,
                 firstResult>>
  /\ callLog' = <<>>
  /\ UNCHANGED <<jiraVars, restVars>>

CallsTestRail(user) == testRailService /\ user.testrailId # ""
CallsJira(user) == jiraService /\ user.jiraAccountId # ""

\* loop head for users[i]; the TestRail block is skipped
TestRailSkipped ==
  /\ pc = "testrail"
  /\ i <= Len(users)
  /\ ~CallsTestRail(users[i])
  /\ userReport' = NewUserReport(users[i])
  /\ pc' = "jira"
  /\ UNCHANGED <<config, testRailService, jiraService, trMock, jiraMock, users, i, reports, consolidated,
                 result, call, firstResult>>
  /\ callLog' = callLog
  /\ UNCHANGED <<jiraVars, restVars>>

\* loop head for users[i]; testRailService.getActivityReport([user.testrailId]) returns
TestRailReturns ==
  /\ pc = "testrail"
  /\ i <= Len(users)
  /\ CallsTestRail(users[i])
  /\ trMock[users[i].testrailId].ok
  /\ LET acts == MockActivities(users[i].testrailId, trMock[users[i].testrailId])
     IN /\ userReport' = [NewUserReport(users[i]) EXCEPT !.testrailActivities = acts]
        /\ consolidated' = consolidated \o ConsolidateAll(users[i], TestRailSource, acts)
  /\ pc' = "jira"
  /\ UNCHANGED <<config, testRailService, jiraService, trMock, jiraMock, users, i, reports, result, call,
                 firstResult>>
  /\ callLog' = Append(callLog, LogEntry(i, TestRailSource, <<users[i].testrailId>>, TRUE))
  /\ UNCHANGED <<jiraVars, restVars>>

\* faulty variant of the catch: one try block around both adapter calls of a user
TestRailFailsSkipsJira ==
  /\ pc = "testrail"
  /\ i <= Len(users)
  /\ CallsTestRail(users[i])
  /\ ~trMock[users[i].testrailId].ok
  /\ userReport' = NewUserReport(users[i])
  /\ reports' = Append(reports, userReport')
  /\ i' = i + 1
  /\ UNCHANGED <<config, testRailService, jiraService, trMock, jiraMock, users, pc, consolidated,
                 result, call, firstResult>>
  /\ callLog' = Append(callLog, LogEntry(i, TestRailSource, <<users[i].testrailId>>, FALSE))
  /\ UNCHANGED <<jiraVars, restVars>>

\* loop head for users[i]; testRailService.getActivityReport throws: caught and logged
TestRailFails ==
  /\ pc = "testrail"
  /\ i <= Len(users)
  /\ CallsTestRail(users[i])
  /\ ~trMock[users[i].testrailId].ok
  /\ userReport' = NewUserReport(users[i])
  /\ pc' = "jira"
  /\ UNCHANGED <<config, testRailService, jiraService, trMock, jiraMock, users, i, reports, consolidated,
                 result, call, firstResult>>
  /\ callLog' = Append(callLog, LogEntry(i, TestRailSource, <<users[i].testrailId>>, FALSE))
  /\ UNCHANGED <<jiraVars, restVars>>

\* faulty variant of the push: a user without activities gets no report
PushReportIfAny(ur) ==
  IF Len(ur.testrailActivities) + Len(ur.jiraActivities) = 0 THEN reports
  ELSE Append(reports, [ur EXCEPT !.totalActivities = Len(ur.testrailActivities) + Len(ur.jiraActivities)])

\* userReport.summary.totalActivities = ...; reports.push(userReport)
PushReport(ur) ==
  Append(reports, [ur EXCEPT !.totalActivities = Len(ur.testrailActivities) + Len(ur.jiraActivities)])

\* the Jira block of users[i] is skipped; the loop body ends
JiraSkipped ==
  /\ pc = "jira"
  /\ ~CallsJira(users[i])
  /\ reports' = PushReport(userReport)
  /\ i' = i + 1
  /\ pc' = "testrail"
  /\ UNCHANGED <<config, testRailService, jiraService, trMock, jiraMock, users, userReport, consolidated,
                 result, call, firstResult>>
  /\ callLog' = callLog
  /\ UNCHANGED <<jiraVars, restVars>>

\* jiraService.getActivityReport([user.jiraAccountId]) returns; the loop body ends
JiraReturns ==
  /\ pc = "jira"
  /\ CallsJira(users[i])
  /\ jiraMock[users[i].jiraAccountId].ok
  /\ LET acts == MockActivities(users[i].jiraAccountId, jiraMock[users[i].jiraAccountId])
     IN /\ userReport' = [userReport EXCEPT !.jiraActivities = acts]
        /\ consolidated' = consolidated \o ConsolidateAll(users[i], JiraSource, acts)
  /\ reports' = PushReport(userReport')
  /\ i' = i + 1
  /\ pc' = "testrail"
  /\ UNCHANGED <<config, testRailService, jiraService, trMock, jiraMock, users, result, call, firstResult>>
  /\ callLog' = Append(callLog, LogEntry(i, JiraSource, <<users[i].jiraAccountId>>, TRUE))
  /\ UNCHANGED <<jiraVars, restVars>>

\* faulty variant of the catch: the failed Jira call is repeated once, failing again
JiraFailsRetried ==
  /\ pc = "jira"
  /\ CallsJira(users[i])
  /\ ~jiraMock[users[i].jiraAccountId].ok
  /\ reports' = PushReport(userReport)
  /\ i' = i + 1
  /\ pc' = "testrail"
  /\ UNCHANGED <<config, testRailService, jiraService, trMock, jiraMock, users, userReport,
                 consolidated, result, call, firstResult>>
  /\ callLog' = callLog \o <<LogEntry(i, JiraSource, <<users[i].jiraAccountId>>, FALSE),
                              LogEntry(i, JiraSource, <<users[i].jiraAccountId>>, FALSE)>>
  /\ UNCHANGED <<jiraVars, restVars>>

\* jiraService.getActivityReport throws: caught and logged; the loop body ends
JiraFails ==
  /\ pc = "jira"
  /\ CallsJira(users[i])
  /\ ~jiraMock[users[i].jiraAccountId].ok
  /\ reports' = PushReport(userReport)
  /\ i' = i + 1
  /\ pc' = "testrail"
  /\ UNCHANGED <<config, testRailService, jiraService, trMock, jiraMock, users, userReport, consolidated,
                 result, call, firstResult>>
  /\ callLog' = Append(callLog, LogEntry(i, JiraSource, <<users[i].jiraAccountId>>, FALSE))
  /\ UNCHANGED <<jiraVars, restVars>>

CountSource(cons, source) == Cardinality({j \in DOMAIN cons : cons[j].source = source})

\* const summary = { totalUsers, totalActivities, testRailActivities, jiraActivities, userSummaries }
Summary(us, reps, cons) ==
  [totalUsers |-> Len(us),
   totalActivities |-> Len(cons),
   testRailActivities |-> CountSource(cons, "TestRail"),
   jiraActivities |-> CountSource(cons, "Jira"),
   userSummaries |-> [r \in DOMAIN reps |->
      [user |-> reps[r].user,
       testRailCount |-> Len(reps[r].testrailActivities),
       jiraCount |-> Len(reps[r].jiraActivities),
       totalCount |-> Len(reps[r].testrailActivities) + Len(reps[r].jiraActivities)]]]

\* after the loop: consolidated.sort(...), the summary, return { reports, consolidated, summary }
ReturnReport ==
  /\ pc = "testrail"
  /\ i > Len(users)
  /\ consolidated' = SortConsolidated(consolidated)
  /\ result' = [reports |-> reports, consolidated |-> consolidated',
                summary |-> Summary(users, reports, consolidated')]
  /\ firstResult' = IF call = 1 THEN result' ELSE firstResult
  /\ pc' = "done"
  /\ UNCHANGED <<config, testRailService, jiraService, trMock, jiraMock, users, i, userReport, reports,
                 call>>
  /\ callLog' = callLog
  /\ UNCHANGED <<jiraVars, restVars>>

Next ==
  \/ GenerateReportStart
  \/ TestRailSkipped
  \/ TestRailReturns
  \/ TestRailFails
  \/ JiraSkipped
  \/ JiraReturns
  \/ JiraFails
  \/ ReturnReport

Init == ReportInit

Spec == Init /\ [][Next]_vars

\* ===================================================== properties of generateReport
Returned == pc = "done"

TrAnswer(u) == trMock[u.testrailId]
JiraAnswer(u) == jiraMock[u.jiraAccountId]
TrFailedFor(u) == CallsTestRail(u) /\ ~TrAnswer(u).ok
JiraFailedFor(u) == CallsJira(u) /\ ~JiraAnswer(u).ok
\* what the adapters handed over for u
TrGiven(u) == IF CallsTestRail(u) /\ TrAnswer(u).ok
              THEN MockActivities(u.testrailId, TrAnswer(u)) ELSE <<>>
JiraGiven(u) == IF CallsJira(u) /\ JiraAnswer(u).ok
                THEN MockActivities(u.jiraAccountId, JiraAnswer(u)) ELSE <<>>
SomeCallFailed == \E n \in DOMAIN users : TrFailedFor(users[n]) \/ JiraFailedFor(users[n])
CountOf(cons, u, source) ==
  Cardinality({j \in DOMAIN cons : cons[j].user = u /\ cons[j].source = source})

\* C1: in every returned report summary.totalActivities = consolidated.length and
\* summary.testRailActivities + summary.jiraActivities = consolidated.length,
\* whatever adapter calls succeeded or failed.
C1_TotalsMatchList ==
  Returned =>
    /\ result.summary.totalActivities = Len(result.consolidated)
    /\ result.summary.testRailActivities + result.summary.jiraActivities
         = Len(result.consolidated)

\* a returned report with entries of both sources and a failed adapter call
C1_Witness ==
  /\ Returned
  /\ SomeCallFailed
  /\ result.summary.testRailActivities >= 1
  /\ result.summary.jiraActivities >= 1

\* C2: the returned consolidated list is non-decreasing by timestamp.
C2_SortedByTimestamp ==
  Returned =>
    \A j \in 1..(Len(result.consolidated) - 1) :
      DateParse(result.consolidated[j].timestamp) <= DateParse(result.consolidated[j + 1].timestamp)

\* a returned list in which an entry of a later user precedes an entry of an earlier
\* user: the sort moved it
C2_Witness ==
  /\ Returned
  /\ \E j \in 1..(Len(result.consolidated) - 1) :
       result.consolidated[j].user.id > result.consolidated[j + 1].user.id

\* C4: a failed adapter call for one user leaves that user's list for that source
\* empty; every other call's activities are in reports and in consolidated; the
\* call returns one report per user.
C4_FailureIsolated ==
  Returned =>
    /\ Len(result.reports) = Len(users)
    /\ \A n \in DOMAIN users :
         LET u == users[n]
             r == result.reports[n]
         IN /\ r.user = u
            /\ TrFailedFor(u) => r.testrailActivities = <<>>
            /\ JiraFailedFor(u) => r.jiraActivities = <<>>
            /\ r.testrailActivities = TrGiven(u)
            /\ r.jiraActivities = JiraGiven(u)
            /\ \A j \in DOMAIN TrGiven(u) :
                 Consolidate(u, "TestRail", TrGiven(u)[j]) \in Range(result.consolidated)
            /\ \A j \in DOMAIN JiraGiven(u) :
                 Consolidate(u, "Jira", JiraGiven(u)[j]) \in Range(result.consolidated)

\* a returned report where the TestRail call of one user failed, the Jira call of
\* the same user delivered, and another user's TestRail call delivered
C4_Witness ==
  /\ Returned
  /\ \E n, m \in DOMAIN users :
       /\ n # m
       /\ TrFailedFor(users[n])
       /\ JiraGiven(users[n]) # <<>>
       /\ TrGiven(users[m]) # <<>>

RECURSIVE SumTotalCount(_)
SumTotalCount(summaries) ==
  IF summaries = <<>> THEN 0
  ELSE Head(summaries).totalCount + SumTotalCount(Tail(summaries))

C8_SecondCallEqualsFirst ==
  (Returned /\ call >= 2) => result = firstResult

\* the second call has returned a list of several entries, after a failed adapter call
C8_Witness ==
  /\ Returned
  /\ call = 2
  /\ SomeCallFailed
  /\ Len(result.consolidated) >= 2

\* =============================== properties of JiraService.getUserActivities
JiraReturned == jpc = "done"
InWindow(t) == startDate <= t /\ t <= endDate
\* the issues matching the created-issue query, and the page of them the call got
CreatedMatches == CreatedJql(accountIds, DateStr(startDate), DateStr(endDate))
CreatedPage == SearchIssues(CreatedMatches, MaxResults, 0)
\* the updated issues whose comment list was fetched
FetchedKeys == Range(updatedIssues) \ failedKeys
QualifyingComments(k) ==
  {cid \in DOMAIN issuesDb[k].comments :
     /\ InWindow(DateParse(issuesDb[k].comments[cid].created))
     /\ issuesDb[k].comments[cid].author \in Range(accountIds)}
CommentActivitiesOf(ks) ==
  UNION {{CommentActivity(k, cid) : cid \in QualifyingComments(k)} : k \in ks}

\* C3: every activity getUserActivities returns has startDate <= timestamp <= endDate,
\* for all startDate and endDate instants.
C3_TimestampsInWindow ==
  JiraReturned => \A a \in Range(jiraResult) : InWindow(a.timestamp)

\* C6: no comment activity is emitted for a comment by an author outside accountIds
\* or created outside [startDate, endDate]; a comment of a fetched issue made
\* exactly at startDate or endDate by a requested author is emitted.
C6_OnlyQualifyingComments ==
  /\ \A a \in Range(activities) :
       a.activity = "commented" => (a.userId \in Range(accountIds) /\ InWindow(a.timestamp))
  /\ JiraReturned =>
       \A k \in FetchedKeys : \A cid \in DOMAIN issuesDb[k].comments :
         LET c == issuesDb[k].comments[cid]
         IN (c.author \in Range(accountIds) /\ DateParse(c.created) \in {startDate, endDate})
              => CommentActivity(k, cid) \in Range(jiraResult)

\* the call returned; a fetched issue has an in-window comment by somebody not
\* requested, and a comment made exactly at endDate, after startDate, is in the result
C6_Witness ==
  /\ JiraReturned
  /\ \E k \in FetchedKeys : \E cid \in DOMAIN issuesDb[k].comments :
       /\ issuesDb[k].comments[cid].author \notin Range(accountIds)
       /\ InWindow(DateParse(issuesDb[k].comments[cid].created))
  /\ \E a \in Range(jiraResult) :
       a.activity = "commented" /\ a.timestamp = endDate /\ startDate < endDate

\* C7: when the comment fetch of an issue fails, the call still returns, with every
\* created activity and every qualifying comment of the other updated issues, and
\* with no comment of the failing issue.
C7_CommentFailureIsolated ==
  /\ failedKeys # {} => jpc # "failed"
  /\ (JiraReturned /\ failedKeys # {}) =>
       /\ \A j \in DOMAIN CreatedPage : CreatedActivity(CreatedPage[j]) \in Range(jiraResult)
       /\ CommentActivitiesOf(FetchedKeys) \subseteq Range(jiraResult)
       /\ \A a \in Range(jiraResult) : a.activity = "commented" => a.issueKey \notin failedKeys

\* the call returned after the fetch failed for an issue; the result holds a created
\* activity and a comment of an issue fetched after the failing one
C7_Witness ==
  /\ JiraReturned
  /\ \E k \in failedKeys : \E a \in Range(jiraResult) :
       a.activity = "commented" /\ a.issueKey > k
  /\ \E a \in Range(jiraResult) : a.activity = "created"

\* C9: every issue matching the created-issue query, however many there are, yields
\* exactly one 'created' activity with its key, summary, creator and created instant.
C9_EveryCreatedIssueEmitted ==
  JiraReturned =>
    \A j \in DOMAIN CreatedMatches :
      Cardinality({n \in DOMAIN jiraResult : jiraResult[n] = CreatedActivity(CreatedMatches[j])}) = 1

\* C10: the returned list holds exactly the created activities and the kept comment
\* activities, each once, in ascending order of timestamp.
C10_UnionSorted ==
  JiraReturned =>
    LET expected == {CreatedActivity(CreatedPage[j]) : j \in DOMAIN CreatedPage}
                      \cup CommentActivitiesOf(FetchedKeys)
    IN /\ Range(jiraResult) = expected
       /\ Len(jiraResult) = Cardinality(expected)
       /\ \A n \in 1..(Len(jiraResult) - 1) : jiraResult[n].timestamp <= jiraResult[n + 1].timestamp

\* the call returned activities of both kinds in another order than they were pushed
C10_Witness ==
  /\ JiraReturned
  /\ jiraResult # pushed
  /\ \E a \in Range(jiraResult) : a.activity = "created"
  /\ \E a \in Range(jiraResult) : a.activity = "commented"

\* ===================================================== AppErrorHandler.handleApiError
\* HTTP statuses a response can carry
HttpStatuses == {400, 401, 402, 403, 404, 429, 500, 503}
\* an error without a response
NoResponse == [present |-> FALSE, status |-> 0, dataMessage |-> ""]
\* error.response: its status and data.message ("" when data has none)
Responses == {NoResponse} \cup [present : {TRUE}, status : HttpStatuses, dataMessage : {"", "denied"}]
\* what a failed HTTP call throws: response and request may each be present
ApiErrors == [response : Responses, request : BOOLEAN, message : {"", "timeout"}]
ServiceNames == {"TestRail", "Jira"}

Digit == <<"0", "1", "2", "3", "4", "5", "6", "7", "8", "9">>
\* Number.prototype.toString: the decimal digits of n
RECURSIVE NumberToString(_)
NumberToString(n) ==
  IF n < 10 THEN <<Digit[n + 1]>>
  ELSE NumberToString(n \div 10) \o <<Digit[(n % 10) + 1]>>

\* a || b on strings: the empty string is falsy
OrElse(a, b) == IF a # "" THEN a ELSE b

\* AppErrorHandler.createError (the timestamp, read from the clock, is left out);
\* code is a string, <<>> when undefined
CreateError(type, message, details, code) ==
  [type |-> type, message |-> message, details |-> details, code |-> code]

HandleApiErrorRequestFirst(error, service) ==
  IF error.request
  THEN CreateError("NETWORK", <<"Failed to connect to", service>>,
                   "Please check your internet connection and API URL", <<"NETWORK_ERROR">>)
  ELSE IF error.response.present
  THEN LET status == error.response.status
           auth == status = 401 \/ status = 403
       IN CreateError(IF auth THEN "AUTHENTICATION" ELSE "API",
                      IF auth THEN <<"Authentication failed for", service>>
                      ELSE <<service, "API error">>,
                      OrElse(error.response.dataMessage, error.message),
                      NumberToString(status))
  ELSE CreateError("UNKNOWN", <<"Unexpected error in", service>>, error.message, <<>>)

HandleApiError(error, service) ==
  IF error.response.present
  THEN LET status == error.response.status
           auth == status = 401 \/ status = 403
       IN CreateError(IF auth THEN "AUTHENTICATION" ELSE "API",
                      IF auth THEN <<"Authentication failed for", service>>
                      ELSE <<service, "API error">>,
                      OrElse(error.response.dataMessage, error.message),
                      NumberToString(status))
  ELSE IF error.request
  THEN CreateError("NETWORK", <<"Failed to connect to", service>>,
                   "Please check your internet connection and API URL", <<"NETWORK_ERROR">>)
  ELSE CreateError("UNKNOWN", <<"Unexpected error in", service>>, error.message, <<>>)

\* the variables handleApiError leaves alone
outsideErr == <<jiraVars, reportVars, csvVars, mailVars, concVars, trVars, cfgVars>>

ErrInit ==
  /\ JiraIdle
  /\ ReportIdle
  /\ CsvIdle
  /\ MailIdle
  /\ ConcIdle
  /\ TrIdle
  /\ CfgIdle
  /\ apiError \in ApiErrors
  /\ serviceName \in ServiceNames
  /\ appError = <<>>
  /\ epc = "caught"

HandleApiErrorCall ==
  /\ epc = "caught"
  /\ appError' = HandleApiError(apiError, serviceName)
  /\ epc' = "handled"
  /\ UNCHANGED <<apiError, serviceName, outsideErr>>

ErrNext == HandleApiErrorCall

SpecErr == ErrInit /\ [][ErrNext]_vars

\* ------------------------------------------------- properties of handleApiError
DigitValue(c) == CHOOSE d \in 0..9 : Digit[d + 1] = c
\* the number a string of decimal digits denotes
RECURSIVE ParseDecimal(_)
ParseDecimal(s) ==
  IF s = <<>> THEN 0
  ELSE ParseDecimal(SubSeq(s, 1, Len(s) - 1)) * 10 + DigitValue(s[Len(s)])

\* C12: handleApiError classifies every error: a response with status 401 or 403
\* gives AUTHENTICATION, a response with any other status gives API, no response
\* but a request gives NETWORK, neither gives UNKNOWN; a response takes precedence
\* over a request, and the code of a response error reads back as its status.
C12_Classified ==
  epc = "handled" =>
    LET r == apiError.response IN
    /\ r.present /\ r.status \in {401, 403} => appError.type = "AUTHENTICATION"
    /\ r.present /\ r.status \notin {401, 403} => appError.type = "API"
    /\ ~r.present /\ apiError.request => appError.type = "NETWORK"
    /\ ~r.present /\ ~apiError.request => appError.type = "UNKNOWN"
    /\ r.present => /\ appError.code # <<>>
                    /\ \A n \in DOMAIN appError.code : appError.code[n] \in Range(Digit)
                    /\ ParseDecimal(appError.code) = r.status

\* a rejected credential whose error carries both a response and a request
C12_Witness ==
  /\ epc = "handled"
  /\ apiError.response.present
  /\ apiError.response.status = 403
  /\ apiError.request
  /\ appError.type = "AUTHENTICATION"
  /\ appError.code = <<"4", "0", "3">>

\* ===================================================== ReportService.exportToCSV
\* rows the consolidated list handed to exportToCSV can have
MaxRows == 2

ExportUsers == {[name |-> "Ann", email |-> "ann@example.com"],
                [name |-> "Bob", email |-> "bob@example.com"]}
\* ConsolidatedActivity values: every field a string
ConsolidatedEntries ==
  [user : ExportUsers, date : {"2024-01-10"}, source : {"TestRail"},
   activityType : {"Test Case: Passed"}, description : {"Login works"},
   details : {"Run 1"}, timestamp : {"2024-01-10T08:00:00.000Z", "2024-01-10T09:00:00.000Z"}]
  \cup
  [user : ExportUsers, date : {"2024-01-10"}, source : {"Jira"},
   activityType : {"Issue Created", "Comment Added"}, description : {"[P-1] Fix login"},
   details : {"Task"}, timestamp : {"2024-01-10T08:00:00.000Z", "2024-01-10T09:00:00.000Z"}]

\* the header handed to createObjectCsvWriter: column ids and titles, in order
CsvHeaderIds == <<"user", "email", "date", "source", "activityType", "description",
                  "details", "timestamp">>
CsvHeaderTitles == <<"User Name", "Email", "Date", "Source", "Activity Type", "Description",
                     "Details", "Timestamp">>

\* the record exportToCSV builds for one consolidated entry
RecordOfEmailFirst(activity) ==
  [user |-> activity.user.email, email |-> activity.user.name, date |-> activity.date,
   source |-> activity.source, activityType |-> activity.activityType,
   description |-> activity.description, details |-> activity.details,
   timestamp |-> activity.timestamp]

RecordOf(activity) ==
  [user |-> activity.user.name, email |-> activity.user.email, date |-> activity.date,
   source |-> activity.source, activityType |-> activity.activityType,
   description |-> activity.description, details |-> activity.details,
   timestamp |-> activity.timestamp]

\* csv-writer: the row of a record is its fields in the order of the header ids
RowOfRecord(record) == [c \in DOMAIN CsvHeaderIds |-> record[CsvHeaderIds[c]]]
\* csv-writer, writeRecords on a fresh writer without append: title row, then one
\* row per record in order
WrittenTable(records) ==
  <<CsvHeaderTitles>> \o [n \in DOMAIN records |-> RowOfRecord(records[n])]

\* what filePath holds before the call: nothing, or a file of another export
OldFiles == {<<>>, <<CsvHeaderTitles, <<"old">>>>}

outsideCsv == <<jiraVars, reportVars, errVars, mailVars, concVars, trVars, cfgVars>>

CsvInit ==
  /\ JiraIdle
  /\ ReportIdle
  /\ ErrIdle
  /\ MailIdle
  /\ ConcIdle
  /\ TrIdle
  /\ CfgIdle
  /\ exportInput \in SeqsUpTo(ConsolidatedEntries, MaxRows)
  /\ csvFile \in OldFiles
  /\ xpc = "start"
  /\ csvError = ""

\* writeRecords resolves: the file holds the whole table, exportToCSV returns
ExportWrites ==
  /\ xpc = "start"
  /\ csvFile' = WrittenTable([n \in DOMAIN exportInput |-> RecordOf(exportInput[n])])
  /\ xpc' = "done"
  /\ UNCHANGED <<exportInput, csvError, outsideCsv>>

\* writeRecords rejects: the file was not opened (it keeps its rows), or it was
\* truncated and any part of the table short of the whole reached it; the catch
\* throws a new Error and nothing removes the file
ExportFails ==
  /\ xpc = "start"
  /\ LET table == WrittenTable([n \in DOMAIN exportInput |-> RecordOf(exportInput[n])])
     IN \/ csvFile' = csvFile
        \/ \E k \in 0..(Len(table) - 1) : csvFile' = SubSeq(table, 1, k)
  /\ xpc' = "failed"
  /\ csvError' = "Failed to export report to CSV"
  /\ UNCHANGED <<exportInput, outsideCsv>>

CsvNext ==
  \/ ExportWrites
  \/ ExportFails

SpecCsv == CsvInit /\ [][CsvNext]_vars

\* ------------------------------------------------- properties of exportToCSV
\* the eight columns of the row for a consolidated entry, as the format fixes them
ExpectedRow(e) ==
  <<e.user.name, e.user.email, e.date, e.source, e.activityType, e.description,
    e.details, e.timestamp>>

\* C13: after exportToCSV returns, the file holds the title row and then exactly one
\* row per consolidated entry, in the order of the list, with the columns user name,
\* email, date, source, activity type, description, details, timestamp; for an empty
\* list the file holds the title row only.
C13_OneRowPerEntry ==
  xpc = "done" =>
    /\ Len(csvFile) = Len(exportInput) + 1
    /\ csvFile[1] = CsvHeaderTitles
    /\ \A n \in DOMAIN exportInput : csvFile[n + 1] = ExpectedRow(exportInput[n])
    /\ exportInput = <<>> => csvFile = <<CsvHeaderTitles>> /\ csvError = ""

\* two different entries exported over an older file
C13_Witness ==
  /\ xpc = "done"
  /\ Len(exportInput) = 2
  /\ exportInput[1].user.name = "Bob"
  /\ exportInput[2].user.name = "Ann"
  /\ exportInput[1].timestamp # exportInput[2].timestamp
  /\ csvFile[2][1] = "Bob"
  /\ csvFile[3][2] = "ann@example.com"

\* the table of exportInput reached the file only in part
PartialFile ==
  /\ Len(csvFile) <= Len(exportInput)
  /\ csvFile = SubSeq(WrittenTable([n \in DOMAIN exportInput |-> RecordOf(exportInput[n])]),
                      1, Len(csvFile))
  /\ csvFile # <<>>

\* C14: a call of exportToCSV either writes the full set of rows and returns, or
\* raises an error; it never returns after only part of the rows was written, and
\* a failed call leaves no partial file standing as output.
C14_AtomicWrite ==
  /\ xpc = "done" => ~PartialFile
  /\ xpc = "failed" => ~PartialFile

\* ===================================================== EmailService.sendReportEmail
\* A string is the sequence of its characters.  The placeholder {{dateRange}} is
\* the two-character word Token; templates are words over TemplateChars.
\* characters of the configured subject
MaxSubject == 5
\* characters of the configured body template
MaxBody == 3

Token == <<"{", "}">>
TemplateChars == {"{", "}", "x"}

\* format(date, 'yyyy-MM-dd'): the calendar day of an instant, as a string
DayNames == <<"2024-01-10", "2024-01-11", "2024-01-12", "2024-01-13">>
Format(t) == <<DayNames[DateStr(t) + 1]>>

\* String.prototype.replace with a pattern that is not global: the first match only
RECURSIVE ReplaceFirst(_, _, _)
ReplaceFirst(s, pattern, replacement) ==
  IF Len(s) < Len(pattern) THEN s
  ELSE IF SubSeq(s, 1, Len(pattern)) = pattern
  THEN replacement \o SubSeq(s, Len(pattern) + 1, Len(s))
  ELSE <<Head(s)>> \o ReplaceFirst(Tail(s), pattern, replacement)

\* String.prototype.replace with a global pattern matching a literal word: every
\* match, scanning from the left, matches not overlapping
RECURSIVE ReplaceAll(_, _, _)
ReplaceAll(s, pattern, replacement) ==
  IF Len(s) < Len(pattern) THEN s
  ELSE IF SubSeq(s, 1, Len(pattern)) = pattern
  THEN replacement \o ReplaceAll(SubSeq(s, Len(pattern) + 1, Len(s)), pattern, replacement)
  ELSE <<Head(s)>> \o ReplaceAll(Tail(s), pattern, replacement)

\* the counts sendReportEmail may be given
SummaryInfo == [totalUsers |-> 2, totalActivities |-> 12, testRailActivities |-> 5,
                jiraActivities |-> 7]

DateRange(start, end) == Format(start) \o <<" to ">> \o Format(end)

\* the subject sendReportEmail builds
MailSubject(template, start, end) == ReplaceAll(template, Token, DateRange(start, end))

\* the body sendReportEmail builds; info is <<>> or <<additionalInfo>>
MailBody(template, start, end, info) ==
  ReplaceAll(template, Token, DateRange(start, end))
  \o (IF info # <<>>
      THEN <<"\n\nReport Summary:">>
           \o <<"\n- Total Users: ">> \o NumberToString(info[1].totalUsers)
           \o <<"\n- Total Activities: ">> \o NumberToString(info[1].totalActivities)
           \o <<"\n- TestRail Activities: ">> \o NumberToString(info[1].testRailActivities)
           \o <<"\n- Jira Activities: ">> \o NumberToString(info[1].jiraActivities)
      ELSE <<>>)
  \o <<"\n\nPlease find the detailed activity report attached.">>
  \o <<"\n\nThis report was generated automatically by Happy Track.">>

\* what the transport can reject with
TransportErrors == [name : {"Error"}, code : {"EAUTH", "ECONNECTION"},
                    message : {"Invalid login", "connect ETIMEDOUT"}]
\* new Error(message)
NewError(message) == [name |-> "Error", code |-> "", message |-> message]

outsideMail == <<jiraVars, reportVars, errVars, csvVars, concVars, trVars, cfgVars>>

MailInit ==
  /\ JiraIdle
  /\ ReportIdle
  /\ ErrIdle
  /\ CsvIdle
  /\ ConcIdle
  /\ TrIdle
  /\ CfgIdle
  /\ subjectTemplate \in SeqsUpTo(TemplateChars, MaxSubject)
  /\ bodyTemplate \in SeqsUpTo(TemplateChars, MaxBody)
  /\ mailStart \in {t \in Ticks : t % DayLen = 0}
  /\ mailEnd \in {t \in Ticks : t >= mailStart /\ t % DayLen = 0}
  /\ additionalInfo \in {<<>>, <<SummaryInfo>>}
  /\ mpc = "start"
  /\ sentMails = <<>>
  /\ transportError = NoError
  /\ mailError = NoError

\* sendReportEmail up to the await in sendEmail: subject and body are built and
\* transporter.sendMail is invoked with them (the html copy of the body and the
\* attachments' file names are left out)
SendMailInvoked ==
  /\ mpc = "start"
  /\ sentMails' = Append(sentMails,
                         [subject |-> MailSubject(subjectTemplate, mailStart, mailEnd),
                          text |-> MailBody(bodyTemplate, mailStart, mailEnd, additionalInfo)])
  /\ mpc' = "sending"
  /\ UNCHANGED <<subjectTemplate, bodyTemplate, mailStart, mailEnd, additionalInfo,
                 transportError, mailError, outsideMail>>

\* transporter.sendMail resolves
SendMailResolves ==
  /\ mpc = "sending"
  /\ mpc' = "sent"
  /\ UNCHANGED <<subjectTemplate, bodyTemplate, mailStart, mailEnd, additionalInfo,
                 sentMails, transportError, mailError, outsideMail>>

\* transporter.sendMail rejects: the catch of sendEmail throws a new Error, the
\* catch of sendReportEmail catches that one and throws another new Error
SendMailRejects ==
  /\ mpc = "sending"
  /\ \E err \in TransportErrors :
       /\ transportError' = err
       /\ LET thrownBySendEmail == NewError("Failed to send email")
          IN mailError' = NewError("Failed to send report email")
  /\ mpc' = "failed"
  /\ UNCHANGED <<subjectTemplate, bodyTemplate, mailStart, mailEnd, additionalInfo,
                 sentMails, outsideMail>>

MailNext ==
  \/ SendMailInvoked
  \/ SendMailResolves
  \/ SendMailRejects

SpecMail == MailInit /\ [][MailNext]_vars

\* ------------------------------------------------- properties of sendReportEmail
\* s holds the word w somewhere
Contains(s, w) == \E k \in 0..(Len(s) - Len(w)) : SubSeq(s, k + 1, k + Len(w)) = w

\* the characters of '<start day> to <end day>'
RangeText == <<DayNames[DateStr(mailStart) + 1], " to ", DayNames[DateStr(mailEnd) + 1]>>

\* s with every date range taken out and the token put in its place
RECURSIVE RangeToToken(_)
RangeToToken(s) ==
  IF Len(s) < 3 THEN s
  ELSE IF SubSeq(s, 1, 3) = RangeText THEN Token \o RangeToToken(SubSeq(s, 4, Len(s)))
  ELSE <<Head(s)>> \o RangeToToken(Tail(s))

\* C15: the subject and the body handed to the transport hold no {{dateRange}}
\* token; where the templates had the token they hold '<start day> to <end day>',
\* and the rest of the template text is unchanged (the body is followed by the
\* text sendReportEmail appends).
C15_TokenReplaced ==
  \A n \in DOMAIN sentMails :
    LET mail == sentMails[n]
        fromTemplate == SubSeq(mail.text, 1, Len(mail.text) - Len(MailBody(<<>>, mailStart, mailEnd, additionalInfo)))
    IN /\ ~Contains(mail.subject, Token)
       /\ ~Contains(mail.text, Token)
       /\ RangeToToken(mail.subject) = subjectTemplate
       /\ RangeToToken(fromTemplate) = bodyTemplate

\* a subject with two tokens and other text, a body with one
C15_Witness ==
  /\ mpc = "sent"
  /\ subjectTemplate = <<"x", "{", "}", "{", "}">>
  /\ bodyTemplate = <<"{", "}", "}">>
  /\ mailStart # mailEnd
  /\ sentMails[1].subject = <<"x">> \o RangeText \o RangeText

\* C16: when the transport fails, it was invoked exactly once and the error
\* sendReportEmail raises is the transport's own error.
C16_TransportErrorAsIs ==
  mpc = "failed" => Len(sentMails) = 1 /\ mailError = transportError

\* ===================================================== concurrent generateReport
\* invocations of generateReport in flight on one ReportService
MaxInvocations == 2
\* activities one adapter call returns while invocations run concurrently
MaxConcActs == 1

Invocations == 1..MaxInvocations

\* the slot holding the locals (reports, consolidated, userReport) of an invocation
\* faulty variant: the lists are fields of the service, shared by all invocations
LocalsOfService(p) == 1
\* const reports = []; const consolidated = []; const userReport = {...}: locals,
\* one set per invocation
LocalsOf(p) == p

outsideConc == <<jiraVars, errVars, csvVars, mailVars, trVars, cfgVars>>
\* the configuration and the solo run, which concurrent invocations only read
readOnlyConc == <<config, testRailService, jiraService, trMock, jiraMock, users, pc, i,
                  userReport, reports, consolidated, result, call, firstResult, callLog>>

ConcInit ==
  /\ JiraIdle
  /\ ErrIdle
  /\ CsvIdle
  /\ MailIdle
  /\ TrIdle
  /\ CfgIdle
  /\ users \in UserLists
  /\ config \in AppConfigs
  /\ testRailService = TestRailConfigured(config)
  /\ jiraService = JiraConfigured(config)
  /\ callLog = <<>>
  /\ trMock \in [{u.testrailId : u \in {v \in Range(users) : testRailService /\ v.testrailId # ""}}
                 -> {r \in TrResponses : Len(r.times) <= MaxConcActs}]
  /\ jiraMock \in [{u.jiraAccountId : u \in {v \in Range(users) : jiraService /\ v.jiraAccountId # ""}}
                   -> {r \in JiraResponses : Len(r.times) <= MaxConcActs}]
  /\ pc = "off"
  /\ i = 0
  /\ userReport = <<>>
  /\ reports = <<>>
  /\ consolidated = <<>>
  /\ result = <<>>
  /\ call = 0
  /\ firstResult = <<>>
  /\ cpc = [p \in Invocations |-> "idle"]
  /\ ci = [p \in Invocations |-> 0]
  /\ cUserReport = [p \in Invocations |-> <<>>]
  /\ cReports = [p \in Invocations |-> <<>>]
  /\ cConsolidated = [p \in Invocations |-> <<>>]
  /\ cResult = [p \in Invocations |-> <<>>]

\* entry of invocation p
ConcStart(p) ==
  /\ cpc[p] = "idle"
  /\ cReports' = [cReports EXCEPT ![LocalsOf(p)] = <<>>]
  /\ cConsolidated' = [cConsolidated EXCEPT ![LocalsOf(p)] = <<>>]
  /\ ci' = [ci EXCEPT ![p] = 1]
  /\ cpc' = [cpc EXCEPT ![p] = "testrail"]
  /\ UNCHANGED <<cUserReport, cResult, readOnlyConc, outsideConc>>

\* invocation p at the loop head; the TestRail block is skipped
ConcTestRailSkipped(p) ==
  /\ cpc[p] = "testrail"
  /\ ci[p] <= Len(users)
  /\ ~CallsTestRail(users[ci[p]])
  /\ cUserReport' = [cUserReport EXCEPT ![LocalsOf(p)] = NewUserReport(users[ci[p]])]
  /\ cpc' = [cpc EXCEPT ![p] = "jira"]
  /\ UNCHANGED <<ci, cReports, cConsolidated, cResult, readOnlyConc, outsideConc>>

\* the TestRail call awaited by invocation p returns
ConcTestRailReturns(p) ==
  /\ cpc[p] = "testrail"
  /\ ci[p] <= Len(users)
  /\ CallsTestRail(users[ci[p]])
  /\ trMock[users[ci[p]].testrailId].ok
  /\ LET user == users[ci[p]]
         acts == MockActivities(user.testrailId, trMock[user.testrailId])
     IN /\ cUserReport' = [cUserReport EXCEPT ![LocalsOf(p)] =
                             [NewUserReport(user) EXCEPT !.testrailActivities = acts]]
        /\ cConsolidated' = [cConsolidated EXCEPT ![LocalsOf(p)] =
                               @ \o ConsolidateAll(user, TestRailSource, acts)]
  /\ cpc' = [cpc EXCEPT ![p] = "jira"]
  /\ UNCHANGED <<ci, cReports, cResult, readOnlyConc, outsideConc>>

\* the TestRail call awaited by invocation p throws
ConcTestRailFails(p) ==
  /\ cpc[p] = "testrail"
  /\ ci[p] <= Len(users)
  /\ CallsTestRail(users[ci[p]])
  /\ ~trMock[users[ci[p]].testrailId].ok
  /\ cUserReport' = [cUserReport EXCEPT ![LocalsOf(p)] = NewUserReport(users[ci[p]])]
  /\ cpc' = [cpc EXCEPT ![p] = "jira"]
  /\ UNCHANGED <<ci, cReports, cConsolidated, cResult, readOnlyConc, outsideConc>>

\* userReport.summary.totalActivities = ...; reports.push(userReport), on the locals
\* of invocation p
ConcPushReport(p, ur) ==
  [cReports EXCEPT ![LocalsOf(p)] =
     Append(@, [ur EXCEPT !.totalActivities = Len(ur.testrailActivities) + Len(ur.jiraActivities)])]

\* the Jira block of invocation p is skipped; the loop body ends
ConcJiraSkipped(p) ==
  /\ cpc[p] = "jira"
  /\ ~CallsJira(users[ci[p]])
  /\ cReports' = ConcPushReport(p, cUserReport[LocalsOf(p)])
  /\ ci' = [ci EXCEPT ![p] = @ + 1]
  /\ cpc' = [cpc EXCEPT ![p] = "testrail"]
  /\ UNCHANGED <<cUserReport, cConsolidated, cResult, readOnlyConc, outsideConc>>

\* the Jira call awaited by invocation p returns; the loop body ends
ConcJiraReturns(p) ==
  /\ cpc[p] = "jira"
  /\ CallsJira(users[ci[p]])
  /\ jiraMock[users[ci[p]].jiraAccountId].ok
  /\ LET user == users[ci[p]]
         acts == MockActivities(user.jiraAccountId, jiraMock[user.jiraAccountId])
     IN /\ cUserReport' = [cUserReport EXCEPT ![LocalsOf(p)].jiraActivities = acts]
        /\ cConsolidated' = [cConsolidated EXCEPT ![LocalsOf(p)] =
                               @ \o ConsolidateAll(user, JiraSource, acts)]
        /\ cReports' = ConcPushReport(p, cUserReport'[LocalsOf(p)])
  /\ ci' = [ci EXCEPT ![p] = @ + 1]
  /\ cpc' = [cpc EXCEPT ![p] = "testrail"]
  /\ UNCHANGED <<cResult, readOnlyConc, outsideConc>>

\* the Jira call awaited by invocation p throws; the loop body ends
ConcJiraFails(p) ==
  /\ cpc[p] = "jira"
  /\ CallsJira(users[ci[p]])
  /\ ~jiraMock[users[ci[p]].jiraAccountId].ok
  /\ cReports' = ConcPushReport(p, cUserReport[LocalsOf(p)])
  /\ ci' = [ci EXCEPT ![p] = @ + 1]
  /\ cpc' = [cpc EXCEPT ![p] = "testrail"]
  /\ UNCHANGED <<cUserReport, cConsolidated, cResult, readOnlyConc, outsideConc>>

\* invocation p after its loop: sort, summary, return
ConcReturnReport(p) ==
  /\ cpc[p] = "testrail"
  /\ ci[p] > Len(users)
  /\ cConsolidated' = [cConsolidated EXCEPT ![LocalsOf(p)] = SortConsolidated(@)]
  /\ cResult' = [cResult EXCEPT ![p] =
                   [reports |-> cReports[LocalsOf(p)],
                    consolidated |-> cConsolidated'[LocalsOf(p)],
                    summary |-> Summary(users, cReports[LocalsOf(p)], cConsolidated'[LocalsOf(p)])]]
  /\ cpc' = [cpc EXCEPT ![p] = "done"]
  /\ UNCHANGED <<ci, cUserReport, cReports, readOnlyConc, outsideConc>>

ConcNext ==
  \E p \in Invocations :
    \/ ConcStart(p)
    \/ ConcTestRailSkipped(p)
    \/ ConcTestRailReturns(p)
    \/ ConcTestRailFails(p)
    \/ ConcJiraSkipped(p)
    \/ ConcJiraReturns(p)
    \/ ConcJiraFails(p)
    \/ ConcReturnReport(p)

SpecConc == ConcInit /\ [][ConcNext]_vars

\* ------------------------------------------- properties of concurrent invocations
\* what generateReport returns for us when it runs alone: per user the activities
\* the adapters hand over, the consolidated entries in user order (TestRail before
\* Jira) sorted, and the summary of both
RECURSIVE ConsolidatedAlone(_)
ConsolidatedAlone(us) ==
  IF us = <<>> THEN <<>>
  ELSE LET u == us[Len(us)]
       IN ConsolidatedAlone(SubSeq(us, 1, Len(us) - 1))
          \o ConsolidateAll(u, TestRailSource, TrGiven(u))
          \o ConsolidateAll(u, JiraSource, JiraGiven(u))

ReportsAlone(us) ==
  [n \in DOMAIN us |->
     [user |-> us[n], testrailActivities |-> TrGiven(us[n]), jiraActivities |-> JiraGiven(us[n]),
      totalActivities |-> Len(TrGiven(us[n])) + Len(JiraGiven(us[n]))]]

ResultAlone(us) ==
  [reports |-> ReportsAlone(us),
   consolidated |-> SortConsolidated(ConsolidatedAlone(us)),
   summary |-> Summary(us, ReportsAlone(us), SortConsolidated(ConsolidatedAlone(us)))]

\* in Spec, where one invocation runs at a time, every return is ResultAlone
AloneIsReference == Returned => result = ResultAlone(users)

\* C17: whatever the interleaving of two invocations' adapter calls, each invocation
\* returns the reports, consolidated list and summary it returns when run alone.
C17_InterleavingInvisible ==
  \A p \in Invocations : cpc[p] = "done" => cResult[p] = ResultAlone(users)

\* invocation 1 has returned two or more entries while invocation 2, started before
\* that, is suspended in its first Jira call with an entry already collected
C17_Witness ==
  /\ cpc[1] = "done"
  /\ Len(cResult[1].consolidated) >= 2
  /\ cpc[2] = "jira"
  /\ ci[2] = 1
  /\ cConsolidated[2] # <<>>
  /\ \E u \in Range(users) : JiraFailedFor(u)

\* ===================================================== TestRailService.getUserActivities
\* results on the TestRail server, over all runs
MaxTrResults == 2
\* new Date(result.created_on * 1000): seconds to milliseconds
MsPerSecond == 1000

\* names are strings of characters, as toLowerCase and includes work on them
Upper == <<"A", "B", "C", "D", "E", "K", "L", "N", "O", "P", "S">>
Lower == <<"a", "b", "c", "d", "e", "k", "l", "n", "o", "p", "s">>
\* String.prototype.toLowerCase
ToLowerCase(s) ==
  [k \in DOMAIN s |-> IF \E n \in DOMAIN Upper : Upper[n] = s[k]
                      THEN Lower[CHOOSE n \in DOMAIN Upper : Upper[n] = s[k]]
                      ELSE s[k]]

Passed == <<"P", "a", "s", "s", "e", "d">>
ExcludedNames == {<<"S", "k", "i", "p", "p", "e", "d">>,
                  <<"B", "L", "O", "C", "K", "E", "D">>,
                  <<"N", "o", "t", " ", "A", "p", "p", "l", "i", "c", "a", "b", "l", "e">>}
\* the status catalogs get_statuses can answer with
TrStatusCatalogs == {<<[id |-> 1, name |-> Passed], [id |-> 2, name |-> x]>> : x \in ExcludedNames}
\* what get_users answers with
TrUsers == <<[id |-> 1, name |-> "Ann"], [id |-> 2, name |-> ""]>>
\* what get_projects answers with; project 2 has no runs
TrProjects == <<[id |-> 1], [id |-> 2]>>
\* what get_suites answers with for a project
TrSuites(projectId) == <<[id |-> projectId, project_id |-> projectId]>>
\* what get_cases answers with for project 1: its cases, all of suite 1
TrCases == <<[id |-> 1, title |-> "Login", suite_id |-> 1],
             [id |-> 2, title |-> "Logout", suite_id |-> 1]>>
\* the tests of the runs: the case each test is an instance of (the test's case_id)
CaseOfTest == <<1, 1, 1>>

\* a result as stored, without its id
ResultBodies == [test_id : {1, 3}, status_id : {1, 2, 9}, created_by : {1, 3}, created_on : {1, 2}]
\* run n of project 1 with its results; suite_id 0 stands for a run without suite
RunOf(n, suiteId, bodies) ==
  [id |-> n, name |-> <<"Run", n>>, suite_id |-> suiteId,
   results |-> [j \in DOMAIN bodies |->
                  [id |-> 10 * n + j, test_id |-> bodies[j].test_id,
                   status_id |-> bodies[j].status_id, created_by |-> bodies[j].created_by,
                   created_on |-> bodies[j].created_on]]]
\* the run lists of project 1 holding at most n results in all
TrRunLists(n) ==
  UNION {{<<RunOf(1, suiteId, first), RunOf(2, 1, second)>> :
            suiteId \in {0, 1}, first \in [1..x[1] -> ResultBodies],
            second \in [1..x[2] -> ResultBodies]} :
         x \in {y \in (0..n) \X (0..n) : y[1] + y[2] <= n}}

\* what get_runs answers with for a project
TrRunsOf(projectId) == IF projectId = 1 THEN trRunsDb ELSE <<>>
\* what get_cases answers with: the cases of the suite, or of the whole project
\* when the URL carries no suite
TrCasesOf(projectId, suiteId) ==
  IF projectId # 1 THEN <<>>
  ELSE IF suiteId # 0 THEN SelectSeq(TrCases, LAMBDA c : c.suite_id = suiteId)
  ELSE TrCases

\* the failures an HTTP call of the adapter can end with
TransportFailures ==
  {[response |-> [present |-> TRUE, status |-> 401, dataMessage |-> "denied"],
    request |-> TRUE, message |-> ""],
   [response |-> [present |-> TRUE, status |-> 500, dataMessage |-> ""],
    request |-> TRUE, message |-> ""],
   [response |-> NoResponse, request |-> TRUE, message |-> "timeout"]}

\* Array.prototype.find / Map.prototype.get by id: <<>> when undefined
FindById(s, id) ==
  LET found == SelectSeq(s, LAMBDA x : x.id = id)
  IN IF found = <<>> THEN <<>> ELSE <<found[1]>>

\* the ids of the statuses whose lower-cased name includes one of the three words
SkipStatuses(statuses) ==
  {statuses[k].id : k \in {n \in DOMAIN statuses :
      \/ Contains(ToLowerCase(statuses[n].name), <<"s", "k", "i", "p">>)
      \/ Contains(ToLowerCase(statuses[n].name),
                  <<"n", "o", "t", " ", "a", "p", "p", "l", "i", "c", "a", "b", "l", "e">>)
      \/ Contains(ToLowerCase(statuses[n].name), <<"b", "l", "o", "c", "k", "e", "d">>)}}

ResultDate(res) == res.created_on * MsPerSecond

\* faulty variant of the filter: the status of the result is not looked at
KeepResultOfAnyStatus(res, userIds, start, end, statuses) ==
  /\ ResultDate(res) >= start
  /\ ResultDate(res) <= end
  /\ \E k \in DOMAIN userIds : userIds[k] = NumberToString(res.created_by)

\* the condition under which a result is looked at further
KeepResult(res, userIds, start, end, statuses) ==
  /\ ResultDate(res) >= start
  /\ ResultDate(res) <= end
  /\ \E k \in DOMAIN userIds : userIds[k] = NumberToString(res.created_by)
  /\ res.status_id \notin SkipStatuses(statuses)

\* the activity pushed for a result whose four lookups succeeded
TrActivity(res, run, testCase, user, status, suite) ==
  [id |-> <<"test-">> \o NumberToString(res.test_id) \o <<"-">> \o NumberToString(res.id),
   userId |-> NumberToString(user.id),
   userName |-> OrElse(user.name, "Unknown"),
   activity |-> "test_execution",
   projectName |-> IF suite.project_id # 0 THEN <<"Project ", suite.project_id>>
                   ELSE <<"Unknown Project">>,
   testCaseTitle |-> testCase.title,
   testRunName |-> run.name,
   status |-> status.name,
   timestamp |-> ResultDate(res)]

\* what the body of `for (const result of results)` pushes for one result
PushedFor(res, run, caseMap, suites, userIds, start, end, statuses) ==
  IF KeepResult(res, userIds, start, end, statuses)
  THEN LET testCase == FindById(caseMap, res.test_id)
           user == FindById(TrUsers, res.created_by)
           status == FindById(statuses, res.status_id)
           suite == FindById(suites, run.suite_id)
       IN IF testCase # <<>> /\ user # <<>> /\ status # <<>> /\ suite # <<>>
          THEN <<TrActivity(res, run, testCase[1], user[1], status[1], suite[1])>>
          ELSE <<>>
  ELSE <<>>

\* faulty variant of the loop over results: it ends at the first result that is
\* kept by the filter but pushes nothing
RECURSIVE PushedForRunUntilDrop(_, _, _, _, _, _, _, _)
PushedForRunUntilDrop(results, run, caseMap, suites, userIds, start, end, statuses) ==
  IF results = <<>> THEN <<>>
  ELSE LET pushedNow == PushedFor(Head(results), run, caseMap, suites, userIds, start, end, statuses)
       IN IF pushedNow = <<>> /\ KeepResult(Head(results), userIds, start, end, statuses)
          THEN <<>>
          ELSE pushedNow \o PushedForRunUntilDrop(Tail(results), run, caseMap, suites, userIds,
                                                  start, end, statuses)

\* what the loop over the results of one run pushes, in order
RECURSIVE PushedForRun(_, _, _, _, _, _, _, _)
PushedForRun(results, run, caseMap, suites, userIds, start, end, statuses) ==
  IF results = <<>> THEN <<>>
  ELSE PushedFor(Head(results), run, caseMap, suites, userIds, start, end, statuses)
       \o PushedForRun(Tail(results), run, caseMap, suites, userIds, start, end, statuses)

\* the windows [startDate, endDate] asked for, in milliseconds
TrWindows == {<<1000, 1000>>, <<1500, 2000>>}

outsideTr == <<jiraVars, reportVars, errVars, csvVars, mailVars, concVars, cfgVars>>
trInputs == <<trUserIds, trStart, trEnd, trStatuses, trRunsDb>>

TrInit ==
  /\ JiraIdle
  /\ ReportIdle
  /\ ErrIdle
  /\ CsvIdle
  /\ MailIdle
  /\ ConcIdle
  /\ CfgIdle
  /\ trUserIds \in {<<NumberToString(1)>>, <<NumberToString(1), NumberToString(3)>>}
  /\ \E window \in TrWindows : trStart = window[1] /\ trEnd = window[2]
  /\ trStatuses \in TrStatusCatalogs
  /\ trRunsDb \in TrRunLists(MaxTrResults)
  /\ trpc = "start"
  /\ trProjectIdx = 0
  /\ trRunIdx = 0
  /\ trActivities = <<>>
  /\ trResult = <<>>
  /\ trError = NoError
  /\ trCause = <<>>

\* const activities = []; getProjects, getStatuses and getUsers answer
TrCatalogsFetched ==
  /\ trpc = "start"
  /\ trActivities' = <<>>
  /\ trProjectIdx' = 1
  /\ trpc' = "project"
  /\ UNCHANGED <<trInputs, trRunIdx, trResult, trError, trCause, outsideTr>>

\* for (const project of projects): getTestRuns and getSuites answer
TrProjectFetched ==
  /\ trpc = "project"
  /\ trProjectIdx <= Len(TrProjects)
  /\ trRunIdx' = 1
  /\ trpc' = "run"
  /\ UNCHANGED <<trInputs, trProjectIdx, trActivities, trResult, trError, trCause, outsideTr>>

\* for (const run of runs): getTestResults and getTestCases answer, every result
\* of the run is looked at
TrRunProcessed ==
  /\ trpc = "run"
  /\ LET project == TrProjects[trProjectIdx]
         runs == TrRunsOf(project.id)
     IN /\ trRunIdx <= Len(runs)
        /\ LET run == runs[trRunIdx]
               caseMap == TrCasesOf(project.id, run.suite_id)
           IN trActivities' = trActivities
                \o PushedForRun(run.results, run, caseMap, TrSuites(project.id),
                                trUserIds, trStart, trEnd, trStatuses)
  /\ trRunIdx' = trRunIdx + 1
  /\ UNCHANGED <<trInputs, trpc, trProjectIdx, trResult, trError, trCause, outsideTr>>

\* the runs of the project are done: next project
TrProjectDone ==
  /\ trpc = "run"
  /\ trRunIdx > Len(TrRunsOf(TrProjects[trProjectIdx].id))
  /\ trProjectIdx' = trProjectIdx + 1
  /\ trpc' = "project"
  /\ UNCHANGED <<trInputs, trRunIdx, trActivities, trResult, trError, trCause, outsideTr>>

\* return activities
TrReturns ==
  /\ trpc = "project"
  /\ trProjectIdx > Len(TrProjects)
  /\ trResult' = trActivities
  /\ trpc' = "done"
  /\ UNCHANGED <<trInputs, trProjectIdx, trRunIdx, trActivities, trError, trCause, outsideTr>>

\* the catch of getUserActivities hands back what was collected so far
TrFetchFailsReturnsPartial ==
  /\ \/ trpc = "start"
     \/ trpc = "project" /\ trProjectIdx <= Len(TrProjects)
     \/ trpc = "run" /\ trRunIdx <= Len(TrRunsOf(TrProjects[trProjectIdx].id))
  /\ \E cause \in TransportFailures : trCause' = cause
  /\ trResult' = trActivities
  /\ trpc' = "done"
  /\ UNCHANGED <<trInputs, trProjectIdx, trRunIdx, trActivities, trError, outsideTr>>

\* an HTTP call of one of the fetches fails: the fetch throws a new Error, the catch
\* of getUserActivities catches that one and throws another new Error; the local
\* activities stays as it was at the throw and nothing is returned
TrFetchFails ==
  /\ \/ trpc = "start"
     \/ trpc = "project" /\ trProjectIdx <= Len(TrProjects)
     \/ trpc = "run" /\ trRunIdx <= Len(TrRunsOf(TrProjects[trProjectIdx].id))
  /\ \E cause \in TransportFailures : trCause' = cause
  /\ trError' = NewError("Failed to fetch user activities from TestRail")
  /\ trpc' = "failed"
  /\ UNCHANGED <<trInputs, trProjectIdx, trRunIdx, trActivities, trResult, outsideTr>>

TrNext ==
  \/ TrCatalogsFetched
  \/ TrProjectFetched
  \/ TrRunProcessed
  \/ TrProjectDone
  \/ TrReturns
  \/ TrFetchFails

SpecTestRail == TrInit /\ [][TrNext]_vars

\* ------------------------------------- properties of TestRailService.getUserActivities
TrReturned == trpc = "done"

\* the results on the server, each with the number of its run
TrResultRefs == {<<n, j>> : n \in DOMAIN trRunsDb, j \in 1..MaxTrResults} \cap
                {x \in (DOMAIN trRunsDb) \X (1..MaxTrResults) : x[2] <= Len(trRunsDb[x[1]].results)}
RunAt(x) == trRunsDb[x[1]]
ResultAt(x) == trRunsDb[x[1]].results[x[2]]

\* the activities returned for the result at x: those carrying its test id and id
ReturnedFor(x) ==
  {k \in DOMAIN trResult :
     trResult[k].id = <<"test-">> \o NumberToString(ResultAt(x).test_id)
                      \o <<"-">> \o NumberToString(ResultAt(x).id)}

\* the three filters, stated on the data
InTrWindow(r) == trStart <= r.created_on * 1000 /\ r.created_on * 1000 <= trEnd
ByAskedUser(r) == \E k \in DOMAIN trUserIds : ParseDecimal(trUserIds[k]) = r.created_by
NameExcluded(name) ==
  \E w \in {<<"s", "k", "i", "p">>, <<"b", "l", "o", "c", "k", "e", "d">>,
            <<"n", "o", "t", " ", "a", "p", "p", "l", "i", "c", "a", "b", "l", "e">>} :
    Contains(ToLowerCase(name), w)
StatusExcluded(r) ==
  \E k \in DOMAIN trStatuses : trStatuses[k].id = r.status_id /\ NameExcluded(trStatuses[k].name)
FilteredIn(r) == InTrWindow(r) /\ ByAskedUser(r) /\ ~StatusExcluded(r)

\* how handleApiError sees a plain Error: neither response nor request
AsCaught(err) == [response |-> NoResponse, request |-> FALSE, message |-> err.message]

\* C11: a failure of an HTTP call reaches the caller of getUserActivities as an
\* error of the class of its cause: classified as the application classifies
\* errors, the error thrown is AUTHENTICATION, NETWORK or API exactly as the cause is.
C11_ErrorClassPreserved ==
  trpc = "failed" =>
    HandleApiError(AsCaught(trError), "TestRail").type = HandleApiError(trCause, "TestRail").type

\* C18: every activity getUserActivities returns belongs to a result with
\* startDate <= created_on*1000 <= endDate, whose created_by, as a string, is in
\* userIds, and whose status has no name containing 'skip', 'not applicable' or
\* 'blocked' in any letter case.
C18_OnlyFilteredIn ==
  TrReturned =>
    \A k \in DOMAIN trResult :
      \E x \in TrResultRefs : k \in ReturnedFor(x) /\ FilteredIn(ResultAt(x))

\* the window is one instant: a result at exactly that instant is returned, a
\* result of an excluded status is not
C18_Witness ==
  /\ TrReturned
  /\ trStart = trEnd
  /\ Len(trResult) = 1
  /\ \E x \in TrResultRefs : ReturnedFor(x) # {} /\ ResultAt(x).created_on * 1000 = trEnd
  /\ \E x \in TrResultRefs : InTrWindow(ResultAt(x)) /\ ByAskedUser(ResultAt(x))
                             /\ StatusExcluded(ResultAt(x))

\* the case, creator and status of a result, where the catalogs hold them
CaseOfResult(x) ==
  FindById(TrCasesOf(1, RunAt(x).suite_id), CaseOfTest[ResultAt(x).test_id])
CreatorOfResult(x) == FindById(TrUsers, ResultAt(x).created_by)
StatusOfResult(x) == FindById(trStatuses, ResultAt(x).status_id)

\* C19: every result that passes the three filters and whose test case, creator
\* and status are in the lookup maps yields exactly one test_execution activity
\* with that case's title, the run's name, the creator's name and the status's name.
C19_OneActivityPerResolvable ==
  TrReturned =>
    \A x \in TrResultRefs :
      (/\ FilteredIn(ResultAt(x))
       /\ CaseOfResult(x) # <<>>
       /\ CreatorOfResult(x) # <<>>
       /\ StatusOfResult(x) # <<>>)
      => /\ Cardinality(ReturnedFor(x)) = 1
         /\ \A k \in ReturnedFor(x) :
              /\ trResult[k].activity = "test_execution"
              /\ trResult[k].testCaseTitle = CaseOfResult(x)[1].title
              /\ trResult[k].testRunName = RunAt(x).name
              /\ trResult[k].userName = CreatorOfResult(x)[1].name
              /\ trResult[k].status = StatusOfResult(x)[1].name

\* the lookups of the loop body, as it keys them
LooksUpCase(x) == FindById(TrCasesOf(1, RunAt(x).suite_id), ResultAt(x).test_id) # <<>>
LooksUpSuite(x) == FindById(TrSuites(1), RunAt(x).suite_id) # <<>>
LooksUpAll(x) ==
  /\ LooksUpCase(x)
  /\ CreatorOfResult(x) # <<>>
  /\ StatusOfResult(x) # <<>>
  /\ LooksUpSuite(x)

CallsOf(n, adapter) ==
  {m \in DOMAIN callLog : callLog[m].user = n /\ callLog[m].adapter = adapter}

C22_CallsIffConfiguredAndId ==
  Returned =>
    \A n \in DOMAIN users :
      /\ CallsOf(n, "TestRail") # {} <=>
           /\ config.testrail.url # ""
           /\ config.testrail.username # ""
           /\ config.testrail.apiKey # ""
           /\ users[n].testrailId # ""
      /\ \A m \in CallsOf(n, "TestRail") : callLog[m].ids = <<users[n].testrailId>>
      /\ CallsOf(n, "Jira") # {} <=>
           /\ config.jira.url # ""
           /\ config.jira.username # ""
           /\ config.jira.apiToken # ""
           /\ users[n].jiraAccountId # ""
      /\ \A m \in CallsOf(n, "Jira") : callLog[m].ids = <<users[n].jiraAccountId>>
      /\ CallsOf(n, "TestRail") = {} /\ CallsOf(n, "Jira") = {} =>
           \A k \in DOMAIN result.consolidated : result.consolidated[k].user # users[n]

\* TestRail lacks its apiKey, Jira is configured: user 1, who has both ids, is
\* asked for in Jira only, user 2, who has no Jira id, not at all
C22_Witness ==
  /\ Returned
  /\ config.testrail.apiKey = ""
  /\ JiraConfigured(config)
  /\ Len(users) = 2
  /\ users[1].testrailId # ""
  /\ users[1].jiraAccountId # ""
  /\ users[2].jiraAccountId = ""
  /\ Len(callLog) = 1
  /\ callLog[1].ok
  /\ result.consolidated # <<>>

\* C23: the reports returned hold one entry per input user, in input order, also
\* for users whose calls failed or were skipped, and summary.totalUsers is the
\* number of input users.
C23_OneReportPerUser ==
  Returned =>
    /\ Len(result.reports) = Len(users)
    /\ \A n \in DOMAIN users : result.reports[n].user = users[n]
    /\ result.summary.totalUsers = Len(users)

\* the TestRail call of user 1 failed, user 2 has no id at all
C23_Witness ==
  /\ Returned
  /\ Len(users) = 2
  /\ TrFailedFor(users[1])
  /\ users[2].testrailId = ""
  /\ users[2].jiraAccountId = ""
  /\ Len(result.reports) = 2

\* x was appended to consolidated before y
AppendedBefore(x, y) ==
  \/ x.user.id < y.user.id
  \/ /\ x.user.id = y.user.id
     /\ \/ x.source = "TestRail" /\ y.source = "Jira"
        \/ x.source = y.source /\ x.description[2] < y.description[2]

\* C24: in the consolidated list returned, two entries with equal timestamps are
\* in the order in which they were appended: earlier user first, for one user
\* TestRail before Jira, within one adapter answer the adapter's order.
C24_StableOnTies ==
  Returned =>
    \A a, b \in DOMAIN result.consolidated :
      (a < b /\ DateParse(result.consolidated[a].timestamp)
                = DateParse(result.consolidated[b].timestamp))
      => AppendedBefore(result.consolidated[a], result.consolidated[b])

\* three entries tie, from two users and both adapters, behind an entry that
\* was appended last
C24_Witness ==
  /\ Returned
  /\ Len(result.consolidated) = 4
  /\ result.consolidated[1].user.id = 2
  /\ result.consolidated[1].timestamp # result.consolidated[2].timestamp
  /\ result.consolidated[2].timestamp = result.consolidated[4].timestamp
  /\ result.consolidated[2].source = "TestRail"
  /\ result.consolidated[3].source = "Jira"
  /\ result.consolidated[3].user.id = 1
  /\ result.consolidated[4].user.id = 2

\* the entries of the returned list for user n, a source and an activity id
EntriesFor(n, source, id) ==
  {k \in DOMAIN result.consolidated :
     /\ result.consolidated[k].user = users[n]
     /\ result.consolidated[k].source = source
     /\ result.consolidated[k].description = id}

RECURSIVE TotalGiven(_)
TotalGiven(us) ==
  IF us = <<>> THEN 0
  ELSE Len(TrGiven(Head(us))) + Len(JiraGiven(Head(us))) + TotalGiven(Tail(us))

\* C25: every entry of consolidated carries the user of the call that produced
\* it and the tag of the adapter that returned it, each activity a successful call
\* returned has exactly one entry, and the list is as long as all returned lists
\* together.
C25_OneEntryPerActivity ==
  Returned =>
    /\ \A k \in DOMAIN result.consolidated :
         LET e == result.consolidated[k] IN
         \E n \in DOMAIN users :
           /\ e.user = users[n]
           /\ \/ e.source = "TestRail"
                 /\ \E j \in DOMAIN TrGiven(users[n]) : TrGiven(users[n])[j].id = e.description
              \/ e.source = "Jira"
                 /\ \E j \in DOMAIN JiraGiven(users[n]) : JiraGiven(users[n])[j].id = e.description
    /\ \A n \in DOMAIN users :
         /\ \A j \in DOMAIN TrGiven(users[n]) :
              Cardinality(EntriesFor(n, "TestRail", TrGiven(users[n])[j].id)) = 1
         /\ \A j \in DOMAIN JiraGiven(users[n]) :
              Cardinality(EntriesFor(n, "Jira", JiraGiven(users[n])[j].id)) = 1
    /\ Len(result.consolidated) = TotalGiven(users)

\* user 1 got two TestRail activities and a failed Jira call, user 2 one Jira
\* activity and no TestRail call
C25_Witness ==
  /\ Returned
  /\ Len(users) = 2
  /\ Len(TrGiven(users[1])) = 2
  /\ JiraFailedFor(users[1])
  /\ ~CallsTestRail(users[2])
  /\ Len(JiraGiven(users[2])) = 1
  /\ Len(result.consolidated) = 3

\* ===================================== failures of the two adapters
\* C26: when a fetch of TestRailService.getUserActivities fails, the call throws
\* an error and returns nothing, whatever activities earlier runs had produced.
C26_AllOrNothing ==
  trCause # <<>> =>
    /\ trpc = "failed"
    /\ trResult = <<>>
    /\ trError = NewError("Failed to fetch user activities from TestRail")

\* a fetch failed after an earlier run had produced an activity
C26_Witness ==
  /\ trpc = "failed"
  /\ trActivities # <<>>
  /\ trRunIdx >= 2
  /\ trResult = <<>>

\* C27: a step of JiraService.getUserActivities that leaves a search phase
\* without entering the next phase is a failure of that search: the call ends
\* failed and returns nothing, and a failed call never has a result, also when
\* the created-issue search had already yielded activities.
C27_SearchFailureFailsCall ==
  /\ [](jpc = "failed" => jiraResult = <<>>)
  /\ [][(jpc \in {"created", "updated"} /\ jpc' \notin {"updated", "comments"})
        => (jpc' = "failed" /\ jiraResult' = <<>>)]_vars

\* the updated-issue search failed after 'created' activities were collected
C27_Witness ==
  /\ jpc = "failed"
  /\ activities # <<>>
  /\ \A j \in DOMAIN activities : activities[j].activity = "created"
  /\ jiraResult = <<>>

\* ===================================== App.loadConfig, ConfigProvider, Configuration
\* The renderer keeps the configuration in React state and writes it to the store
\* of the main process through store-set requests, which the main process handles
\* in the order sent. Time is counted in milliseconds on the one timeout of the
\* auto-save effect.

AutoSaveDelay == 1000
TickMs == 500
MaxUpdates == 2

DefaultConfig ==
  [users |-> <<>>,
   testrail |-> [url |-> "", username |-> "", apiKey |-> ""],
   jira |-> [url |-> "", username |-> "", apiToken |-> ""],
   email |-> [smtpHost |-> "", subject |-> "Happy Track Report - {{dateRange}}"],
   theme |-> "light"]

\* the values the tabs of Configuration hand to the four handlers
UsersValues == {<<>>, <<"u1">>}
TestRailValues == {DefaultConfig.testrail, [url |-> "https://tr", username |-> "qa", apiKey |-> "key"]}
JiraValues == {DefaultConfig.jira, [url |-> "https://jira", username |-> "qa", apiToken |-> "token"]}
EmailValues == {DefaultConfig.email, [DefaultConfig.email EXCEPT !.smtpHost = "smtp"]}

\* what an earlier session may have left under 'app-config'
SavedConfigs ==
  {DefaultConfig,
   [DefaultConfig EXCEPT !.users = <<"u1">>],
   [DefaultConfig EXCEPT !.users = <<"u1">>, !.jira = [url |-> "https://jira", username |-> "qa", apiToken |-> "token"]]}

\* { ...config, ...newConfig }
Merge(cfg, newConfig) ==
  [k \in DOMAIN cfg |-> IF k \in DOMAIN newConfig THEN newConfig[k] ELSE cfg[k]]

\* how a store-set request ends: the handler stores and answers true, the handler
\* catches a failure of the store and answers false, the request itself rejects
SetOutcomes == {"stored", "refused", "rejected"}

\* what a rejected request throws: an Error, whose message saveConfig keeps
InvokeRejection == NewError("Error invoking remote method 'store-set'")

StoreSetRequest(from, value) == [from |-> from, value |-> value]

outsideCfg == <<jiraVars, reportVars, errVars, csvVars, mailVars, concVars, trVars>>

CfgInit ==
  /\ JiraIdle
  /\ ReportIdle
  /\ ErrIdle
  /\ CsvIdle
  /\ MailIdle
  /\ ConcIdle
  /\ TrIdle
  /\ store \in {<<>>} \cup {<<c>> : c \in SavedConfigs}
  /\ apc = "boot"
  /\ appConfig = <<>>
  /\ ctxConfig = <<>>
  /\ closureConfig = <<>>
  /\ renderPending = FALSE
  /\ ctxLoading = FALSE
  /\ ctxError = ""
  /\ timer = <<>>
  /\ ipc = <<>>
  /\ saveMessage = ""
  /\ updates = 0
  /\ writeFailed = FALSE
  /\ lastSave = <<>>

\* loadConfig: store.get answers the saved value
LoadConfigFound ==
  /\ apc = "boot"
  /\ store # <<>>
  /\ appConfig' = store
  /\ apc' = "ready"
  /\ UNCHANGED <<store, ctxConfig, closureConfig, renderPending, ctxLoading, ctxError, timer,
                 ipc, saveMessage, updates, writeFailed, lastSave, outsideCfg>>

\* loadConfig: store.get answers undefined, because nothing is stored or because
\* the store-get handler caught a failure of the store; the defaults become the
\* config and are sent to the store, whose answer is awaited and ignored
LoadConfigDefaults ==
  /\ apc = "boot"
  /\ \E readFails \in BOOLEAN :
       /\ store = <<>> \/ readFails
       /\ \E outcome \in SetOutcomes :
            /\ store' = IF outcome = "stored" THEN <<DefaultConfig>> ELSE store
            /\ writeFailed' = (outcome # "stored")
  /\ appConfig' = <<DefaultConfig>>
  /\ apc' = "ready"
  /\ UNCHANGED <<ctxConfig, closureConfig, renderPending, ctxLoading, ctxError, timer,
                 ipc, saveMessage, updates, lastSave, outsideCfg>>

\* loadConfig: the store.get request rejects; the catch logs, config stays null
\* and App shows 'Failed to load configuration'
LoadConfigThrows ==
  /\ apc = "boot"
  /\ apc' = "failed"
  /\ UNCHANGED <<store, appConfig, ctxConfig, closureConfig, renderPending, ctxLoading,
                 ctxError, timer, ipc, saveMessage, updates, writeFailed, lastSave, outsideCfg>>

\* the auto-save effect keeps the timeout it set at mount
EffectOnMountOnly(cfg) == IF timer = <<>> /\ apc = "ready"
                          THEN <<[config |-> cfg, left |-> AutoSaveDelay]>> ELSE timer

\* the auto-save effect of a render in which config changed: the cleanup of the
\* previous run clears its timeout, then a new timeout is set
AutoSaveEffect(cfg) == <<[config |-> cfg, left |-> AutoSaveDelay]>>

\* App renders ConfigProvider with initialConfig; the effect runs after the mount
ProviderMounts ==
  /\ apc = "ready"
  /\ ctxConfig' = appConfig
  /\ closureConfig' = appConfig
  /\ ctxLoading' = FALSE
  /\ ctxError' = ""
  /\ timer' = AutoSaveEffect(appConfig[1])
  /\ apc' = "mounted"
  /\ UNCHANGED <<store, appConfig, renderPending, ipc, saveMessage, updates, writeFailed,
                 lastSave, outsideCfg>>

\* one handler of Configuration: updateConfig(newConfig), then autoSave(), which
\* calls saveConfig() up to its await; both are closures of the current render
HandlerCall(newConfig) ==
  /\ apc = "mounted"
  /\ ~renderPending
  /\ updates < MaxUpdates
  /\ ctxError' = ""
  /\ ctxConfig' = <<Merge(closureConfig[1], newConfig)>>
  /\ renderPending' = TRUE
  /\ ctxLoading' = TRUE
  /\ ipc' = Append(ipc, StoreSetRequest("saveConfig", closureConfig[1]))
  /\ updates' = updates + 1
  /\ lastSave' = <<[patch |-> newConfig, sent |-> closureConfig[1]]>>
  /\ UNCHANGED <<store, apc, appConfig, closureConfig, timer, saveMessage, writeFailed, outsideCfg>>

updateUsers == \E v \in UsersValues : HandlerCall([users |-> v])
updateTestRail == \E v \in TestRailValues : HandlerCall([testrail |-> v])
updateJira == \E v \in JiraValues : HandlerCall([jira |-> v])
updateEmail == \E v \in EmailValues : HandlerCall([email |-> v])

\* React renders ConfigProvider with the new state before the next event: the
\* closures now hold it and the effect runs again
Rerender ==
  /\ apc = "mounted"
  /\ renderPending
  /\ closureConfig' = ctxConfig
  /\ timer' = AutoSaveEffect(ctxConfig[1])
  /\ renderPending' = FALSE
  /\ UNCHANGED <<store, apc, appConfig, ctxConfig, ctxLoading, ctxError, ipc, saveMessage,
                 updates, writeFailed, lastSave, outsideCfg>>

\* time passes with no event
Tick ==
  /\ apc = "mounted"
  /\ ~renderPending
  /\ timer # <<>>
  /\ timer[1].left > 0
  /\ timer' = <<[timer[1] EXCEPT !.left = IF @ > TickMs THEN @ - TickMs ELSE 0]>>
  /\ UNCHANGED <<store, apc, appConfig, ctxConfig, closureConfig, renderPending, ctxLoading,
                 ctxError, ipc, saveMessage, updates, writeFailed, lastSave, outsideCfg>>

\* the timeout runs autoSave of the effect, up to its await
AutoSaveFires ==
  /\ apc = "mounted"
  /\ ~renderPending
  /\ timer # <<>>
  /\ timer[1].left = 0
  /\ ipc' = Append(ipc, StoreSetRequest("autoSave", timer[1].config))
  /\ timer' = <<>>
  /\ UNCHANGED <<store, apc, appConfig, ctxConfig, closureConfig, renderPending, ctxLoading,
                 ctxError, saveMessage, updates, writeFailed, lastSave, outsideCfg>>

\* the main process handles the oldest store-set request and the renderer resumes
\* after its await: saveConfig clears loading (sets error on a rejection) and
\* Configuration.autoSave shows the save message unless saveConfig threw; the
\* effect's autoSave only logs a rejection
StoreSetHandled ==
  /\ ipc # <<>>
  /\ \E outcome \in SetOutcomes :
       /\ store' = IF outcome = "stored" THEN <<Head(ipc).value>> ELSE store
       /\ writeFailed' = (writeFailed \/ outcome # "stored")
       /\ IF Head(ipc).from = "saveConfig"
          THEN /\ ctxLoading' = FALSE
               /\ ctxError' = IF outcome = "rejected" THEN InvokeRejection.message ELSE ctxError
               /\ saveMessage' = IF outcome = "rejected" THEN saveMessage
                                 ELSE "Configuration auto-saved!"
          ELSE UNCHANGED <<ctxLoading, ctxError, saveMessage>>
  /\ ipc' = Tail(ipc)
  /\ UNCHANGED <<apc, appConfig, ctxConfig, closureConfig, renderPending, timer, updates,
                 lastSave, outsideCfg>>

\* the timeout set by Configuration.autoSave clears the save message
SaveMessageExpires ==
  /\ saveMessage # ""
  /\ saveMessage' = ""
  /\ UNCHANGED <<store, apc, appConfig, ctxConfig, closureConfig, renderPending, ctxLoading,
                 ctxError, timer, ipc, updates, writeFailed, lastSave, outsideCfg>>

CfgNext ==
  \/ LoadConfigFound
  \/ LoadConfigDefaults
  \/ LoadConfigThrows
  \/ ProviderMounts
  \/ updateUsers
  \/ updateTestRail
  \/ updateJira
  \/ updateEmail
  \/ Rerender
  \/ Tick
  \/ AutoSaveFires
  \/ StoreSetHandled
  \/ SaveMessageExpires

SpecConfig == CfgInit /\ [][CfgNext]_vars

\* ------------------------------------- properties of the configuration life cycle
\* C28: while App starts, a value saved under 'app-config' is left as it is: the
\* defaults are written only over an empty store, also when reading the store fails.
C28_SavedNeverOverwritten ==
  [][(apc = "boot" /\ store # <<>>) => store' = store]_vars

\* nothing is scheduled, nothing is in flight, no render is due
Quiescent ==
  /\ apc = "mounted"
  /\ ~renderPending
  /\ timer = <<>>
  /\ ipc = <<>>

\* C29: once the timeout of the latest change has run, the request sent last
\* carries the current config, and when no request is left in flight and no store
\* write failed, the value under 'app-config' is the current config.
C29_PersistedEqualsCurrent ==
  /\ (apc = "mounted" /\ ~renderPending /\ timer = <<>> /\ ipc # <<>>)
       => ipc[Len(ipc)].value = ctxConfig[1]
  /\ (Quiescent /\ ~writeFailed) => store = ctxConfig

\* two handler calls changed the config, the saveConfig of the last one sent an
\* older config, and after the timeout the store holds the current one
C29_Witness ==
  /\ Quiescent
  /\ ~writeFailed
  /\ updates = 2
  /\ lastSave[1].sent # ctxConfig[1]
  /\ ctxConfig # appConfig
  /\ store = ctxConfig

\* C30: the config that saveConfig sends to the store, called by a handler right
\* after updateConfig(patch), contains the patch.
C30_SaveContainsPatch ==
  \A n \in DOMAIN lastSave :
    \A k \in DOMAIN lastSave[n].patch : lastSave[n].sent[k] = lastSave[n].patch[k]

====
